---------------------------- MODULE Spec2Model ----------------------------
(***************************************************************************)
(* Position reconciliation of trade-tracker: db/db_utils.py,               *)
(* sync_positions_from_trades (FIFO lot matching of the trades table into  *)
(* the positions table inside one database session), together with the     *)
(* writers of the trades table (insert_trade, the manual form, the CSV     *)
(* upload).                                                                *)
(*                                                                         *)
(* Representation of values                                                *)
(*   - A nullable / loosely typed column value is a record                 *)
(*       [kind |-> "num", val |-> n]   a number                            *)
(*       [kind |-> "null", val |-> 0]  SQL NULL / Python None              *)
(*       [kind |-> "text", val |-> 0]  a text that float() cannot parse    *)
(*   - A quantity n is an integer count of 1e-7 shares, one decimal more   *)
(*     than the 6 decimals the code rounds to, so round(x, 6) is a real    *)
(*     rounding (to a multiple of 10) and not the identity.                *)
(*   - A price and a profit_loss are integer counts of cents.              *)
(*   - A date is a day number.                                             *)
(*   - A trade_type is a sequence of one-character strings, so strip() and *)
(*     lower() are computed and not assumed.                               *)
(*   - Lots and closed fragments carry two history fields, buy_id and      *)
(*     sell_id (the ids of the trades they come from).  The code does not  *)
(*     keep them; they are dropped when a row is written to the table and  *)
(*     no operator of the model reads them to decide anything.             *)
(***************************************************************************)
EXTENDS Integers, Sequences, FiniteSets, Bags, TLC

VARIABLES
    trades,            \* the trades table: rows in insertion order, id = index
    positions,         \* the positions table as committed (what any reader sees): a bag of rows
    pc,                \* where the running sync_positions_from_trades call stands
    tx,                \* the positions table as the open session sees it (uncommitted)
    trades_by_key,     \* local: normalised trades grouped by (ticker, platform_id)
    closed_positions,  \* local: closed fragments computed by the matcher
    open_positions,    \* local: open lots left by the matcher
    runs,              \* number of sync_positions_from_trades calls started
    result,            \* outcome of the last finished call (of either operation): "none", "ok", "error"
    cause,             \* where the last finished call failed, "" when it did not
    preRun,            \* history: the committed positions table when no call is running / when the running call started
    synced,            \* history: the last committed sync call read the trades table as it is now
    option_trades,     \* the option_trades table: rows in insertion order, id = index
    sess,              \* per browser session: where its "close option trade" flow of data_entry stands
    ret,               \* the last close_option_trade call: whether the row existed, and what the caller got
    synthetic,         \* history: the trades appended by the close flow, with the option trade each came from
    yearly,            \* aggregate_gains: its first result, year -> gain and tax
    yearly_breakdown,  \* aggregate_gains: its second result, (year, asset, term) -> gain
    summary,           \* get_option_trades_summary: its result
    match,             \* local: where the matching loop of the running call stands, with open_lots and sell_qty
    runners,           \* per browser session: its own sync_positions_from_trades call and database session
    breaker,           \* a CircuitBreaker object: its fields
    now,               \* time.time(), in seconds
    call               \* the last call of a wrapper of error_handling: what the function did and what the caller got

\* the variables of the option trade operations
optionVars == <<option_trades, sess, ret, synthetic>>

\* the variables of the reports
reportVars == <<yearly, yearly_breakdown, summary>>

\* the position of the matching loop
matcherVars == <<match>>

\* the calls of sync_positions_from_trades of the browser sessions
concurrentVars == <<runners>>

\* the variables of the wrappers of error_handling
errorVars == <<breaker, now, call>>

\* the variables of sync_positions_from_trades, the trades table apart
syncVars == <<positions, pc, tx, trades_by_key, closed_positions,
              open_positions, runs, result, cause, preRun, synced>>

vars == <<trades, positions, pc, tx, trades_by_key, closed_positions,
          open_positions, runs, result, cause, preRun, synced,
          option_trades, sess, ret, synthetic, yearly, yearly_breakdown, summary,
          match, runners, breaker, now, call>>

-----------------------------------------------------------------------------
(* Bounds of the model *)

\* rows the trades table may hold
MaxTrades == 3

\* sync_positions_from_trades calls in one behaviour
MaxRuns == 2

-----------------------------------------------------------------------------
(* Column values *)

Num(n) == [kind |-> "num", val |-> n]

SqlNull == [kind |-> "null", val |-> 0]

BadText == [kind |-> "text", val |-> 0]

\* one share in quantity units (1e-7 share)
QtyUnit == 10 * 1000000

\* 1e-6 share, the grid round(x, 6) rounds to and the epsilon of the pop test
Micro == QtyUnit \div 1000000

Shares(n) == n * QtyUnit

Dollars(n) == n * 100

Abs(n) == IF n < 0 THEN 0 - n ELSE n

Min(a, b) == IF a <= b THEN a ELSE b


-----------------------------------------------------------------------------
(* Rounding.  Python's round() rounds a float to the nearest grid point;   *)
(* the inputs of the model are chosen off the exact half-way points, where *)
(* the binary representation of the float decides.                         *)

\* n rounded to the nearest multiple of m (m > 0), a tie going to the even multiple
RoundTo(n, m) ==
    LET q == n \div m
        r == n % m
    IN  IF 2 * r < m THEN q * m
        ELSE IF 2 * r > m THEN (q + 1) * m
        ELSE IF q % 2 = 0 THEN q * m ELSE (q + 1) * m

\* round(x, 6) of a quantity
Round6(x) == RoundTo(x, Micro)

\* round(price_diff * qty, 2): cents, from a price difference in cents and a
\* quantity in 1e-7 shares.  The product is divided by QtyUnit and rounded
\* half to even; it is computed in pieces (whole shares, thousands of units,
\* units) that add up to the same number, so that no piece leaves 32 bits.
Round2(price_diff, qty) ==
    LET whole == qty \div QtyUnit
        frac  == qty % QtyUnit
        f1    == frac \div 1000
        f0    == frac % 1000
        A     == price_diff * f1
        M     == (A % 10000) * 1000 + price_diff * f0
        fl    == price_diff * whole + (A \div 10000) + (M \div QtyUnit)
        r     == M % QtyUnit
    IN  IF 2 * r < QtyUnit THEN fl
        ELSE IF 2 * r > QtyUnit THEN fl + 1
        ELSE IF fl % 2 = 0 THEN fl ELSE fl + 1

-----------------------------------------------------------------------------
(* Normalisation of one trades row (the loop that fills trades_by_key) *)

\* try: qty = round(float(quantity), 6)  except Exception: qty = 0.0
NormQty(quantity) ==
    IF quantity.kind = "num" THEN Round6(quantity.val) ELSE 0

\* float(price) raises for a value that is neither None nor a number
PriceRaises(price) == price.kind = "text"

\* float(price) if price is not None else 0.0
NormPrice(price) == IF price.kind = "null" THEN 0 ELSE price.val

\* str.lower() on one character
LowerChar(c) ==
    CASE c = "B" -> "b"
      [] c = "U" -> "u"
      [] c = "Y" -> "y"
      [] c = "S" -> "s"
      [] c = "E" -> "e"
      [] c = "L" -> "l"
      [] c = "H" -> "h"
      [] c = "O" -> "o"
      [] c = "D" -> "d"
      [] OTHER -> c

Lower(s) == [i \in 1..Len(s) |-> LowerChar(s[i])]

RECURSIVE LStrip(_)
LStrip(s) == IF s # <<>> /\ Head(s) = " " THEN LStrip(Tail(s)) ELSE s

RECURSIVE RStrip(_)
RStrip(s) ==
    IF s # <<>> /\ s[Len(s)] = " " THEN RStrip(SubSeq(s, 1, Len(s) - 1)) ELSE s

\* A normalisation that lowercases and does not trim.
NormTypeLowerOnly(trade_type) == Lower(trade_type)

\* (str(trade_type) if trade_type is not None else "").strip().lower();
\* a missing trade_type is the empty sequence
NormType(trade_type) == Lower(RStrip(LStrip(trade_type)))

\* the dict appended to trades_by_key[(ticker, platform_id)]
NormTrade(row) ==
    [id         |-> row.id,
     price      |-> NormPrice(row.price),
     quantity   |-> NormQty(row.quantity),
     date       |-> row.date,
     trade_type |-> NormType(row.trade_type)]

-----------------------------------------------------------------------------
(* The SELECT: ORDER BY ticker, platform_id, date, id, and the grouping *)

\* A grouping by the ticker alone, every platform under one key.
KeyOfTickerOnly(row) == <<row.ticker, Num(1)>>

\* the key of trades_by_key[(ticker, platform_id)]
KeyOf(row) == <<row.ticker, row.platform_id>>

\* A SELECT ordered by id alone, ignoring the trade date.
PrecedesByIdOnly(a, b) == a.id < b.id

\* A SELECT ordered by date descending.
PrecedesNewestFirst(a, b) == a.date > b.date \/ (a.date = b.date /\ a.id < b.id)

\* ORDER BY ... date, id within one (ticker, platform_id)
Precedes(a, b) == a.date < b.date \/ (a.date = b.date /\ a.id < b.id)

RECURSIVE OrderBy(_)
OrderBy(S) ==
    IF S = {} THEN <<>>
    ELSE LET first == CHOOSE r \in S : \A o \in S : o = r \/ Precedes(r, o)
         IN  <<first>> \o OrderBy(S \ {first})

RowsOf(table) == {table[i] : i \in 1..Len(table)}

\* A grouping loop without the "if qty == 0: continue".
KeptRowsAll(table, key) == {r \in RowsOf(table) : KeyOf(r) = key}

\* the rows of one key the loop keeps (a row whose quantity rounds to 0 is skipped)
KeptRows(table, key) ==
    {r \in RowsOf(table) : KeyOf(r) = key /\ NormQty(r.quantity) # 0}

\* trades_by_key[key] after the loop
Grouped(table, key) ==
    LET sorted == OrderBy(KeptRows(table, key))
    IN  [i \in 1..Len(sorted) |-> NormTrade(sorted[i])]

\* float(price) raised for some row the loop reaches
ConversionRaises(table) ==
    \E r \in RowsOf(table) : NormQty(r.quantity) # 0 /\ PriceRaises(r.price)

-----------------------------------------------------------------------------
(* The lot matcher: the body of "for (ticker, platform_id), trade_list in  *)
(* trades_by_key.items()"                                                  *)

BUY == <<"b", "u", "y">>

SELL == <<"s", "e", "l", "l">>

\* open_lots.append({...}) for a buy
NewLot(trade) ==
    [price      |-> trade.price,
     quantity   |-> trade.quantity,
     entry_date |-> trade.date,
     remaining  |-> Round6(trade.quantity),
     buy_id     |-> trade.id]

\* A matcher that always consumes the whole head lot.
MatchedQtyWholeLot(lot, sell_qty) == Round6(lot.remaining)

\* matched_qty of one iteration of the while loop
MatchedQty(lot, sell_qty) == Round6(Min(Round6(lot.remaining), sell_qty))

\* profit_loss of one closed fragment
ProfitLoss(sell_price, lot_price, matched_qty) ==
    Round2(sell_price - lot_price, matched_qty)

\* the dict appended to closed_positions
Fragment(key, lot, trade, matched_qty) ==
    [ticker       |-> key[1],
     platform_id  |-> key[2],
     entry_price  |-> lot.price,
     quantity     |-> matched_qty,
     entry_date   |-> lot.entry_date,
     exit_price   |-> trade.price,
     exit_date    |-> trade.date,
     profit_loss  |-> ProfitLoss(trade.price, lot.price, matched_qty),
     buy_id       |-> lot.buy_id,
     sell_id      |-> trade.id]

\* lot['remaining'] after one iteration
RemainingAfter(lot, matched_qty) == Round6(lot.remaining - matched_qty)

\* if abs(lot['remaining']) < 1e-6: open_lots.popleft()
LotIsEmpty(remaining) == Abs(remaining) < Micro

\* A matcher that pops the head lot after every match, exhausted or not.
QueueAfterAlwaysPops(lots, remaining) == Tail(lots)

\* A matcher that never pops: the head lot stays in the queue with its new remaining.
QueueAfterNeverPops(lots, remaining) ==
    <<[Head(lots) EXCEPT !.remaining = remaining]>> \o Tail(lots)

\* the queue after the head lot was matched: popped, or kept with its new remaining
QueueAfter(lots, remaining) ==
    IF LotIsEmpty(remaining)
    THEN Tail(lots)
    ELSE <<[Head(lots) EXCEPT !.remaining = remaining]>> \o Tail(lots)

\* one iteration of the while loop; s = [lots, sell_qty, closed]
SellIter(key, trade, s) ==
    LET lot         == Head(s.lots)
        matched_qty == MatchedQty(lot, s.sell_qty)
    IN  [lots     |-> QueueAfter(s.lots, RemainingAfter(lot, matched_qty)),
         sell_qty |-> Round6(s.sell_qty - matched_qty),
         closed   |-> Append(s.closed, Fragment(key, lot, trade, matched_qty))]

\* while round(sell_qty, 6) > 0 and open_lots
RECURSIVE SellLoop(_, _, _)
SellLoop(key, trade, s) ==
    IF Round6(s.sell_qty) > 0 /\ s.lots # <<>>
    THEN SellLoop(key, trade, SellIter(key, trade, s))
    ELSE s

\* one trade of trade_list; m = [lots, closed]
TradeStep(key, trade, m) ==
    IF trade.trade_type = BUY
    THEN [m EXCEPT !.lots = Append(m.lots, NewLot(trade))]
    ELSE IF trade.trade_type = SELL
    THEN LET s == SellLoop(key, trade,
                           [lots     |-> m.lots,
                            sell_qty |-> Round6(trade.quantity),
                            closed   |-> m.closed])
         IN  [lots |-> s.lots, closed |-> s.closed]
    ELSE m

\* the whole trade_list of one key, from trade i on
RECURSIVE MatchFrom(_, _, _, _)
MatchFrom(key, trade_list, i, m) ==
    IF i > Len(trade_list) THEN m
    ELSE MatchFrom(key, trade_list, i + 1, TradeStep(key, trade_list[i], m))

MatchKey(key, trade_list) ==
    MatchFrom(key, trade_list, 1, [lots |-> <<>>, closed |-> <<>>])

\* the dict appended to open_positions for a lot left in the queue
OpenPosition(key, lot) ==
    [ticker      |-> key[1],
     platform_id |-> key[2],
     entry_price |-> lot.price,
     quantity    |-> lot.remaining,
     entry_date  |-> lot.entry_date,
     buy_id      |-> lot.buy_id]

OpenOf(key, lots) == [i \in 1..Len(lots) |-> OpenPosition(key, lots[i])]

-----------------------------------------------------------------------------
(* The positions table and the statements run on it *)

\* a row of INSERT INTO positions (... exit_price, exit_date ..., profit_loss) for a closed fragment
ClosedRow(p) ==
    [ticker          |-> p.ticker,
     trade_type      |-> SqlNull,
     position_status |-> "close",
     entry_price     |-> Num(p.entry_price),
     quantity        |-> Num(p.quantity),
     entry_date      |-> Num(p.entry_date),
     exit_price      |-> Num(p.exit_price),
     exit_date       |-> Num(p.exit_date),
     platform_id     |-> p.platform_id,
     profit_loss     |-> Num(p.profit_loss)]

\* a row of the INSERT for an open lot; the columns it does not name stay NULL
OpenRow(p) ==
    [ticker          |-> p.ticker,
     trade_type      |-> SqlNull,
     position_status |-> "open",
     entry_price     |-> Num(p.entry_price),
     quantity        |-> Num(p.quantity),
     entry_date      |-> Num(p.entry_date),
     exit_price      |-> SqlNull,
     exit_date       |-> SqlNull,
     platform_id     |-> p.platform_id,
     profit_loss     |-> SqlNull]

\* SQL's a = b: never true when either side is NULL
SqlEq(a, b) == a.kind # "null" /\ b.kind # "null" /\ a = b

\* A DELETE that filters on the ticker alone.
DeleteMatchesTickerOnly(row, key) == row.ticker = key[1]

\* WHERE ticker = :ticker AND platform_id = :platform_id
DeleteMatches(row, key) == row.ticker = key[1] /\ SqlEq(row.platform_id, key[2])

\* DELETE FROM positions WHERE ... for one key
DeleteKey(table, key) ==
    LET kept == {r \in BagToSet(table) : ~DeleteMatches(r, key)}
    IN  [r \in kept |-> table[r]]

\* for ticker, platform_id in all_keys: session.execute(DELETE ...)
RECURSIVE DeleteAll(_, _)
DeleteAll(table, ks) ==
    IF ks = <<>> THEN table ELSE DeleteAll(DeleteKey(table, Head(ks)), Tail(ks))

RECURSIVE BagOfSeq(_)
BagOfSeq(rows) ==
    IF rows = <<>> THEN EmptyBag ELSE SetToBag({Head(rows)}) (+) BagOfSeq(Tail(rows))

\* the batch INSERT of closed_positions
InsertClosed(table, closed) ==
    table (+) BagOfSeq([i \in 1..Len(closed) |-> ClosedRow(closed[i])])

\* the batch INSERT of open_positions
InsertOpen(table, open) ==
    table (+) BagOfSeq([i \in 1..Len(open) |-> OpenRow(open[i])])

-----------------------------------------------------------------------------
(* The values of the model *)

Buy_ == <<"B", "u", "y">>

SELL_ == <<"S", "E", "L", "L">>

sell_ == <<" ", "s", "e", "l", "l", " ">>

AAPL1 == <<"AAPL", Num(1)>>

AAPL2 == <<"AAPL", Num(2)>>

AAPLNone == <<"AAPL", SqlNull>>

MSFT1 == <<"MSFT", Num(1)>>

\* the keys of the model in the order of ORDER BY ticker, platform_id (NULLs last)
KeyOrder == <<AAPL1, AAPL2, AAPLNone, MSFT1>>

Keys == {KeyOrder[i] : i \in 1..Len(KeyOrder)}

\* what a writer of the trades table supplies; the id is given by the table
Input(key, price, quantity, date, trade_type) ==
    [ticker |-> key[1], platform_id |-> key[2], price |-> price,
     quantity |-> quantity, date |-> date, trade_type |-> trade_type]

\* the rows the writers of the trades table enter in the model
TradeInputs ==
    { Input(AAPL1,    Num(Dollars(100)), Num(Shares(10)),     1, Buy_),
      Input(AAPL1,    Num(Dollars(110)), Num(Shares(5)),      1, BUY),
      Input(AAPL1,    Num(Dollars(120)), Num(Shares(12)),     2, SELL_),
      Input(AAPL1,    Num(Dollars(120)), Num(Shares(3)),      1, sell_),
      Input(AAPL1,    Num(Dollars(110)), Num(Shares(0 - 5)),  1, BUY),
      Input(AAPLNone, SqlNull,           Num(Shares(10) + 4), 1, BUY),
      Input(MSFT1,    Num(Dollars(100)), BadText,             1, BUY),
      Input(MSFT1,    BadText,           Num(Shares(10)),     1, BUY) }

WithId(input, id) ==
    [id |-> id, ticker |-> input.ticker, platform_id |-> input.platform_id,
     price |-> input.price, quantity |-> input.quantity, date |-> input.date,
     trade_type |-> input.trade_type]

\* section 8 of the specification: buy 10@100, buy 5@110, sell 12@120 on days 1, 2, 3
ScenarioPartialFill ==
    << WithId(Input(AAPL1, Num(Dollars(100)), Num(Shares(10)), 1, BUY), 1),
       WithId(Input(AAPL1, Num(Dollars(110)), Num(Shares(5)),  2, BUY), 2),
       WithId(Input(AAPL1, Num(Dollars(120)), Num(Shares(12)), 3, SELL), 3) >>

\* section 8 of the specification: buy 5@50, sell 8@60
ScenarioExcessSell ==
    << WithId(Input(AAPL1, Num(Dollars(50)), Num(Shares(5)), 1, BUY), 1),
       WithId(Input(AAPL1, Num(Dollars(60)), Num(Shares(8)), 2, SELL), 2) >>

\* trades tables a behaviour may start from
InitialTrades == {<<>>, ScenarioPartialFill, ScenarioExcessSell}

\* a position row left by an earlier state of the database
StaleRow(key) ==
    [ticker          |-> key[1],
     trade_type      |-> SqlNull,
     position_status |-> "open",
     entry_price     |-> Num(Dollars(70)),
     quantity        |-> Num(Shares(7)),
     entry_date      |-> Num(1),
     exit_price      |-> SqlNull,
     exit_date       |-> SqlNull,
     platform_id     |-> key[2],
     profit_loss     |-> SqlNull]

\* positions tables a behaviour may start from
InitialPositions == {EmptyBag, SetToBag({StaleRow(k) : k \in Keys})}

-----------------------------------------------------------------------------
(* Option trades: insert_option_trade, close_option_trade and the "close   *)
(* option trade" flow of data_entry.  Option prices and fees are cents,    *)
(* profit_loss is cents for the 100 shares of one contract.                *)

\* option trades the option_trades table may hold
MaxOptions == 1

\* browser sessions running data_entry
Sessions == {1, 2}

CoveredCall == <<"c", "o", "v", "e", "r", "e", "d", " ", "c", "a", "l", "l">>

CashSecuredPut ==
    <<"c", "a", "s", "h", " ", "s", "e", "c", "u", "r", "e", "d", " ", "p", "u", "t">>

CALL == <<"c", "a", "l", "l">>

PUT == <<"p", "u", "t">>

Sell_ == <<"S", "e", "l", "l">>

\* what insert_option_trade is called with (expiry_date plays no part in any
\* operation modelled and is left out)
OptionInput(key, strategy, strike_price, trade_date, transaction_type, option_open_price, open_fee) ==
    [ticker |-> key[1], platform_id |-> key[2], strategy |-> strategy,
     strike_price |-> strike_price, trade_date |-> trade_date,
     transaction_type |-> transaction_type,
     option_open_price |-> option_open_price, open_fee |-> open_fee]

\* the option trades entered in the model: the two settlement sides with the
\* same prices and no fee, a trade with an open fee, and a trade stored
\* without open price and fee
OptionInputs ==
    { OptionInput(AAPL1, CoveredCall, Num(Dollars(150)), Num(1), "credit",
                  Num(Dollars(2)), Num(0)),
      OptionInput(AAPL1, CashSecuredPut, Num(Dollars(140)), Num(1), "debit",
                  Num(Dollars(2)), Num(0)),
      OptionInput(MSFT1, CALL, Num(Dollars(310)), Num(1), "debit",
                  Num(Dollars(1)), Num(65)),
      OptionInput(MSFT1, PUT, Num(Dollars(300)), Num(1), "credit",
                  SqlNull, SqlNull) }

\* the row INSERT INTO option_trades creates: the columns the statement does
\* not name take the defaults of the table, status 'open' and NULL
NewOption(input, id) ==
    [id                |-> id,
     ticker            |-> input.ticker,
     platform_id       |-> input.platform_id,
     strategy          |-> input.strategy,
     strike_price      |-> input.strike_price,
     trade_date        |-> input.trade_date,
     transaction_type  |-> input.transaction_type,
     option_open_price |-> input.option_open_price,
     open_fee          |-> input.open_fee,
     notes             |-> "",
     status            |-> "open",
     close_date        |-> SqlNull,
     option_close_price |-> SqlNull,
     close_fee         |-> SqlNull,
     profit_loss       |-> SqlNull]

\* what the close form submits: status, close date, close price, close fee, notes
CloseInput(status, close_date, option_close_price, close_fee) ==
    [status |-> status, close_date |-> close_date,
     option_close_price |-> option_close_price, close_fee |-> close_fee,
     notes |-> "closed"]

CloseInputs ==
    { CloseInput("closed",    2, Num(50), Num(0)),
      CloseInput("assigned",  2, Num(50), Num(35)),
      CloseInput("exercised", 3, Num(0),  Num(0)),
      CloseInput("expired",   3, SqlNull, SqlNull) }

\* fetchone() of SELECT ... FROM option_trades WHERE id = :trade_id returned a row
Found(table, trade_id) == \E i \in 1..Len(table) : table[i].id = trade_id

RowOfId(table, trade_id) ==
    table[CHOOSE i \in 1..Len(table) : table[i].id = trade_id]

\* float(x) if x is not None else 0.0
FloatOrZero(x) == IF x.kind = "null" THEN 0 ELSE x.val

\* A settlement that takes the debit formula for every trade.
SettlementAlwaysDebit(row, option_close_price, close_fee) ==
    (FloatOrZero(option_close_price) - FloatOrZero(row.option_open_price)) * 100
        - (FloatOrZero(row.open_fee) + FloatOrZero(close_fee))

\* profit_loss of close_option_trade for a row that was found
Settlement(row, option_close_price, close_fee) ==
    LET open      == FloatOrZero(row.option_open_price)
        close     == FloatOrZero(option_close_price)
        total_fee == FloatOrZero(row.open_fee) + FloatOrZero(close_fee)
    IN  IF row.transaction_type = "credit"
        THEN (open - close) * 100 - total_fee
        ELSE (close - open) * 100 - total_fee

\* UPDATE option_trades SET status, close_date, option_close_price, close_fee,
\* profit_loss, notes WHERE id = :trade_id
UpdateClose(table, trade_id, status, close_date, option_close_price, close_fee, profit_loss, notes) ==
    [i \in 1..Len(table) |->
        IF table[i].id = trade_id
        THEN [table[i] EXCEPT !.status = status, !.close_date = close_date,
                              !.option_close_price = option_close_price,
                              !.close_fee = close_fee,
                              !.profit_loss = profit_loss, !.notes = notes]
        ELSE table[i]]

\* close_option_trade(trade_id, status, close_date, option_close_price, notes,
\* close_fee): the option_trades table after its commit
CloseOptionTrade(table, trade_id, f) ==
    IF Found(table, trade_id)
    THEN LET row == RowOfId(table, trade_id)
         IN  UpdateClose(table, trade_id, f.status, Num(f.close_date),
                         Num(FloatOrZero(f.option_close_price)),
                         Num(FloatOrZero(f.close_fee)),
                         Num(Settlement(row, f.option_close_price, f.close_fee)),
                         f.notes)
    ELSE UpdateClose(table, trade_id, f.status, Num(f.close_date),
                     f.option_close_price, f.close_fee, SqlNull, f.notes)

\* "sub in s" of Python strings
Contains(sub, s) ==
    \E i \in 1..(Len(s) - Len(sub) + 1) : SubSeq(s, i, i + Len(sub) - 1) = sub

\* trade_type of the synthetic trade: the if / elif / else on strategy.lower()
SyntheticSide(strategy) ==
    LET st == Lower(strategy)
    IN  IF Contains(CALL, st) \/ Contains(PUT, st) THEN Buy_
        ELSE IF Contains(CashSecuredPut, st) \/ Contains(CoveredCall, st) THEN Sell_
        ELSE Buy_

\* the arguments of insert_trade in the close flow: 100 shares at the strike
\* price of the trade the form was rendered for, dated at the close date
SyntheticInput(trade, close_date) ==
    Input(<<trade.ticker, trade.platform_id>>, trade.strike_price,
          Num(Shares(100)), close_date, SyntheticSide(trade.strategy))

NoTrade == [id |-> 0]

\* a session outside the close flow
SessIdle == [pc |-> "idle", trade |-> NoTrade, close_status |-> "", close_date |-> 0]

NoCall == [found |-> FALSE, value |-> "none"]

\* no option trade exists and no session is in the close flow
InitOptions ==
    /\ option_trades = <<>>
    /\ sess = [s \in Sessions |-> SessIdle]
    /\ ret = NoCall
    /\ synthetic = <<>>

\* no report was computed
InitReports ==
    /\ yearly = <<>>
    /\ yearly_breakdown = <<>>
    /\ summary = <<>>

\* the matching loop is not running
NoMatch ==
    [stage |-> "idle", k |-> 0, i |-> 0, open_lots |-> <<>>, sell_qty |-> 0,
     iterations |-> 0, lots_at_start |-> 0]

InitMatcher == match = NoMatch

\* a session that is not inside sync_positions_from_trades
NoRun ==
    [pc |-> "idle", trades_by_key |-> <<>>, closed_positions |-> <<>>,
     open_positions |-> <<>>, deleted |-> EmptyBag, inserted |-> EmptyBag]

InitRunners == runners = [s \in Sessions |-> NoRun]

\* CircuitBreaker.__init__
NewBreaker(failure_threshold, timeout) ==
    [failure_threshold |-> failure_threshold, timeout |-> timeout,
     failure_count |-> 0, last_failure_time |-> 0, state |-> "closed"]

\* no wrapper was called
NoWrapperCall ==
    [wrapper |-> "none", stage |-> "none", invoked |-> FALSE, outcome |-> "none",
     returned |-> "none", raised |-> "none", warned |-> FALSE]

\* a breaker with the defaults of __init__, never called
InitErrors ==
    /\ breaker = NewBreaker(5, 60)
    /\ now = 0
    /\ call = NoWrapperCall

-----------------------------------------------------------------------------
(* State machine *)

Init ==
    /\ trades \in InitialTrades
    /\ positions \in InitialPositions
    /\ pc = "idle"
    /\ tx = positions
    /\ trades_by_key = <<>>
    /\ closed_positions = <<>>
    /\ open_positions = <<>>
    /\ runs = 0
    /\ result = "none"
    /\ cause = ""
    /\ preRun = positions
    /\ synced = FALSE
    /\ InitOptions
    /\ InitReports
    /\ InitMatcher
    /\ InitRunners
    /\ InitErrors

\* insert_trade, and the INSERT INTO trades of the manual form and of the CSV
\* upload: one committed row, the id given by the table
InsertTrade(input) ==
    /\ pc = "idle"
    /\ Len(trades) < MaxTrades
    /\ trades' = Append(trades, WithId(input, Len(trades) + 1))
    /\ result' = "ok"
    /\ cause' = ""
    /\ synced' = FALSE
    /\ UNCHANGED <<positions, pc, tx, trades_by_key, closed_positions,
                   open_positions, runs, preRun>>
    /\ UNCHANGED <<optionVars, reportVars>>
    /\ UNCHANGED <<matcherVars, concurrentVars, errorVars>>

\* trades_by_key as the grouping loop leaves it: the keys that kept a row, in
\* the order of the SELECT
GroupAll(table) ==
    LET ks == SelectSeq(KeyOrder, LAMBDA k : KeptRows(table, k) # {})
    IN  [i \in 1..Len(ks) |-> [key |-> ks[i], trade_list |-> Grouped(table, ks[i])]]

\* all_keys = list(trades_by_key.keys())
AllKeys(tbk) == [i \in 1..Len(tbk) |-> tbk[i].key]

\* closed_positions and open_positions after the loop over trades_by_key.items()
RECURSIVE MatchAll(_, _, _)
MatchAll(tbk, i, acc) ==
    IF i > Len(tbk) THEN acc
    ELSE LET m == MatchKey(tbk[i].key, tbk[i].trade_list)
         IN  MatchAll(tbk, i + 1,
                      [closed |-> acc.closed \o m.closed,
                       open   |-> acc.open \o OpenOf(tbk[i].key, m.lots)])

\* sync_positions_from_trades, a session is opened: the SELECT and the grouping loop
SyncRead ==
    /\ pc = "idle"
    /\ runs < MaxRuns
    /\ ~ConversionRaises(trades)
    /\ runs' = runs + 1
    /\ tx' = positions
    /\ trades_by_key' = GroupAll(trades)
    /\ closed_positions' = <<>>
    /\ open_positions' = <<>>
    /\ pc' = "delete"
    /\ result' = "none"
    /\ cause' = ""
    /\ UNCHANGED <<trades, positions, preRun, synced>>
    /\ UNCHANGED <<optionVars, reportVars>>
    /\ UNCHANGED <<matcherVars, concurrentVars, errorVars>>

\* the grouping loop raises (float(price) of a row), the call ends with the exception
SyncReadRaises ==
    /\ pc = "idle"
    /\ runs < MaxRuns
    /\ ConversionRaises(trades)
    /\ runs' = runs + 1
    /\ result' = "error"
    /\ cause' = "ValueError"
    /\ UNCHANGED <<trades, positions, pc, tx, trades_by_key, closed_positions,
                   open_positions, preRun, synced>>
    /\ UNCHANGED <<optionVars, reportVars>>
    /\ UNCHANGED <<matcherVars, concurrentVars, errorVars>>

\* the SELECT fails in the store
SyncSelectFails ==
    /\ pc = "idle"
    /\ runs < MaxRuns
    /\ runs' = runs + 1
    /\ result' = "error"
    /\ cause' = "select"
    /\ UNCHANGED <<trades, positions, pc, tx, trades_by_key, closed_positions,
                   open_positions, preRun, synced>>
    /\ UNCHANGED <<optionVars, reportVars>>
    /\ UNCHANGED <<matcherVars, concurrentVars, errorVars>>

\* A connection in autocommit mode: every statement is visible at once.
AfterExecuteAutocommit(table, session) == session

\* the table as committed after a statement that the session executed and has
\* not committed: session.execute() writes in the session's transaction only
AfterExecute(table, session) == table

\* the DELETE of every key of all_keys, in the session
SyncDelete ==
    /\ pc = "delete"
    /\ tx' = DeleteAll(tx, AllKeys(trades_by_key))
    /\ pc' = "insert_closed"
    /\ positions' = AfterExecute(positions, tx')
    /\ UNCHANGED <<trades, trades_by_key, closed_positions,
                   open_positions, runs, result, cause, preRun, synced>>
    /\ UNCHANGED <<optionVars, reportVars>>
    /\ UNCHANGED <<matcherVars, concurrentVars, errorVars>>

\* the matching loop over trades_by_key, then the batch INSERT of closed_positions
SyncInsertClosed ==
    /\ pc = "insert_closed"
    /\ LET m == MatchAll(trades_by_key, 1, [closed |-> <<>>, open |-> <<>>])
       IN  /\ closed_positions' = m.closed
           /\ open_positions' = m.open
           /\ tx' = InsertClosed(tx, m.closed)
    /\ pc' = "insert_open"
    /\ positions' = AfterExecute(positions, tx')
    /\ UNCHANGED <<trades, trades_by_key, runs, result, cause, preRun, synced>>
    /\ UNCHANGED <<optionVars, reportVars>>
    /\ UNCHANGED <<matcherVars, concurrentVars, errorVars>>

\* the batch INSERT of open_positions
SyncInsertOpen ==
    /\ pc = "insert_open"
    /\ tx' = InsertOpen(tx, open_positions)
    /\ pc' = "commit"
    /\ positions' = AfterExecute(positions, tx')
    /\ UNCHANGED <<trades, trades_by_key, closed_positions,
                   open_positions, runs, result, cause, preRun, synced>>
    /\ UNCHANGED <<optionVars, reportVars>>
    /\ UNCHANGED <<matcherVars, concurrentVars, errorVars>>

\* session.commit(): what the session wrote becomes the table
Commit(table, session) == session

SyncCommit ==
    /\ pc = "commit"
    /\ positions' = Commit(positions, tx)
    /\ pc' = "idle"
    /\ result' = "ok"
    /\ cause' = ""
    /\ synced' = TRUE
    /\ trades_by_key' = <<>>
    /\ closed_positions' = <<>>
    /\ open_positions' = <<>>
    /\ preRun' = positions'
    /\ UNCHANGED <<trades, tx, runs>>
    /\ UNCHANGED <<optionVars, reportVars>>
    /\ UNCHANGED <<matcherVars, concurrentVars, errorVars>>

\* A failure path that keeps what the session had written.
RollbackKeepsWrites(table, session) == session

\* leaving "with conn.session as session" by an exception: the session is
\* closed, what it wrote and did not commit is rolled back
Rollback(table, session) == table

\* a statement of the session (a DELETE, an INSERT or the commit) fails
SyncFail ==
    /\ pc \in {"delete", "insert_closed", "insert_open", "commit"}
    /\ pc = "delete" => trades_by_key # <<>>
    /\ pc = "insert_closed" =>
          MatchAll(trades_by_key, 1, [closed |-> <<>>, open |-> <<>>]).closed # <<>>
    /\ pc = "insert_open" => open_positions # <<>>
    /\ positions' = Rollback(positions, tx)
    /\ tx' = positions'
    /\ pc' = "idle"
    /\ result' = "error"
    /\ cause' = pc
    /\ trades_by_key' = <<>>
    /\ closed_positions' = <<>>
    /\ open_positions' = <<>>
    /\ UNCHANGED <<trades, runs, preRun, synced>>
    /\ UNCHANGED <<optionVars, reportVars>>
    /\ UNCHANGED <<matcherVars, concurrentVars, errorVars>>

Next ==
    \/ \E input \in TradeInputs : InsertTrade(input)
    \/ SyncRead
    \/ SyncReadRaises
    \/ SyncSelectFails
    \/ SyncDelete
    \/ SyncInsertClosed
    \/ SyncInsertOpen
    \/ SyncCommit
    \/ SyncFail

Spec == Init /\ [][Next]_vars

-----------------------------------------------------------------------------
(* Reconciliation of whole trade histories: the trades table is any        *)
(* sequence of rows with quantities at and around the 6th decimal, and     *)
(* only sync_positions_from_trades runs.                                   *)

\* rows with quantities that round to 0 at 6 decimals (0.0000004, -0.0000004,
\* 0.0000005, 0), that round to 0.000001 (0.0000006), and whole quantities
HistoryInputs ==
    { Input(AAPL1, Num(Dollars(100)), Num(Shares(10)),    1, BUY),
      Input(AAPL1, Num(Dollars(120)), Num(Shares(4)),     2, SELL),
      Input(AAPL1, Num(Dollars(110)), Num(4),             1, BUY),
      Input(AAPL1, Num(Dollars(120)), Num(0 - 4),         2, SELL),
      Input(AAPL1, Num(Dollars(120)), Num(5),             1, SELL),
      Input(AAPL1, Num(Dollars(110)), Num(6),             1, BUY),
      Input(MSFT1, Num(Dollars(100)), Num(0),             1, BUY) }

\* the trades table holds a history of at most MaxTrades rows
InitHistory ==
    /\ \E n \in 0..MaxTrades : \E h \in [1..n -> HistoryInputs] :
          trades = [i \in 1..n |-> WithId(h[i], i)]
    /\ positions = EmptyBag
    /\ pc = "idle"
    /\ tx = positions
    /\ trades_by_key = <<>>
    /\ closed_positions = <<>>
    /\ open_positions = <<>>
    /\ runs = 0
    /\ result = "none"
    /\ cause = ""
    /\ preRun = positions
    /\ synced = FALSE
    /\ InitOptions
    /\ InitReports
    /\ InitMatcher
    /\ InitRunners
    /\ InitErrors

NextHistory ==
    \/ SyncRead
    \/ SyncSelectFails
    \/ SyncDelete
    \/ SyncInsertClosed
    \/ SyncInsertOpen
    \/ SyncCommit
    \/ SyncFail

SpecHistory == InitHistory /\ [][NextHistory]_vars

-----------------------------------------------------------------------------
(* The matching loop step by step: one action per trade of a trade_list    *)
(* and one per iteration of "while round(sell_qty, 6) > 0 and open_lots",  *)
(* between the DELETE and the batch INSERT of closed_positions.            *)

\* a side that is neither buy nor sell
HOLD == <<"h", "o", "l", "d">>

\* iterations of the while loop of one sell the model follows
MaxIterations == 5

\* histories of one key with buys and sells out of date order and with
\* negative quantities, as the CSV upload stores them
MatcherInputs ==
    { Input(AAPL1, Num(Dollars(100)), Num(Shares(10)),    1, BUY),
      Input(AAPL1, Num(Dollars(110)), Num(Shares(5)),     2, BUY),
      Input(AAPL1, Num(Dollars(120)), Num(Shares(12)),    3, SELL),
      Input(AAPL1, Num(Dollars(120)), Num(Shares(4)),     1, SELL),
      Input(AAPL1, Num(Dollars(110)), Num(Shares(0 - 5)), 1, BUY),
      Input(AAPL1, Num(Dollars(120)), Num(Shares(0 - 3)), 2, SELL),
      Input(AAPL1, Num(Dollars(120)), Num(Shares(2)),     2, HOLD) }

\* the trades table holds a history of at most MaxTrades rows of the inputs
InitFrom(inputs) ==
    /\ \E n \in 0..MaxTrades : \E h \in [1..n -> inputs] :
          trades = [i \in 1..n |-> WithId(h[i], i)]
    /\ positions = EmptyBag
    /\ pc = "idle"
    /\ tx = positions
    /\ trades_by_key = <<>>
    /\ closed_positions = <<>>
    /\ open_positions = <<>>
    /\ runs = 0
    /\ result = "none"
    /\ cause = ""
    /\ preRun = positions
    /\ synced = FALSE
    /\ InitOptions
    /\ InitReports
    /\ InitMatcher
    /\ InitRunners
    /\ InitErrors

InitMatcherSpec == InitFrom(MatcherInputs)

\* the key and the trade the loop stands at
MatchKeyAt == trades_by_key[match.k].key

MatchListAt == trades_by_key[match.k].trade_list

MatchTradeAt == MatchListAt[match.i]

MatchFrame ==
    UNCHANGED <<trades, positions, tx, trades_by_key, runs, result, cause,
                preRun, synced, optionVars, reportVars, concurrentVars, errorVars>>

\* closed_positions = [], open_positions = []
MatchStart ==
    /\ pc = "insert_closed"
    /\ match.stage = "idle"
    /\ match' = [NoMatch EXCEPT !.stage = "key", !.k = 1]
    /\ closed_positions' = <<>>
    /\ open_positions' = <<>>
    /\ UNCHANGED pc
    /\ MatchFrame

\* for (ticker, platform_id), trade_list in trades_by_key.items(): open_lots = deque()
MatchKeyStart ==
    /\ match.stage = "key"
    /\ match.k <= Len(trades_by_key)
    /\ match' = [match EXCEPT !.stage = "trade", !.i = 1, !.open_lots = <<>>]
    /\ UNCHANGED <<pc, closed_positions, open_positions>>
    /\ MatchFrame

\* for trade in trade_list: a buy appends a lot
MatchBuy ==
    /\ match.stage = "trade"
    /\ match.i <= Len(MatchListAt)
    /\ MatchTradeAt.trade_type = BUY
    /\ match' = [match EXCEPT !.open_lots = Append(@, NewLot(MatchTradeAt)),
                              !.i = @ + 1]
    /\ UNCHANGED <<pc, closed_positions, open_positions>>
    /\ MatchFrame

\* a sell: sell_qty = round(trade['quantity'], 6), then the while loop
MatchSell ==
    /\ match.stage = "trade"
    /\ match.i <= Len(MatchListAt)
    /\ MatchTradeAt.trade_type = SELL
    /\ match' = [match EXCEPT !.stage = "while",
                              !.sell_qty = Round6(MatchTradeAt.quantity),
                              !.iterations = 0,
                              !.lots_at_start = Len(match.open_lots)]
    /\ UNCHANGED <<pc, closed_positions, open_positions>>
    /\ MatchFrame

\* a trade that is neither a buy nor a sell: no branch is taken
MatchOther ==
    /\ match.stage = "trade"
    /\ match.i <= Len(MatchListAt)
    /\ MatchTradeAt.trade_type # BUY
    /\ MatchTradeAt.trade_type # SELL
    /\ match' = [match EXCEPT !.i = @ + 1]
    /\ UNCHANGED <<pc, closed_positions, open_positions>>
    /\ MatchFrame

\* one iteration of the while loop
MatchIterate ==
    /\ match.stage = "while"
    /\ Round6(match.sell_qty) > 0 /\ match.open_lots # <<>>
    /\ match.iterations < MaxIterations
    /\ LET s == SellIter(MatchKeyAt, MatchTradeAt,
                         [lots     |-> match.open_lots,
                          sell_qty |-> match.sell_qty,
                          closed   |-> closed_positions])
       IN  /\ match' = [match EXCEPT !.open_lots = s.lots,
                                     !.sell_qty = s.sell_qty,
                                     !.iterations = @ + 1]
           /\ closed_positions' = s.closed
    /\ UNCHANGED <<pc, open_positions>>
    /\ MatchFrame

\* the condition of the while loop is false: the next trade
MatchLoopExit ==
    /\ match.stage = "while"
    /\ ~(Round6(match.sell_qty) > 0 /\ match.open_lots # <<>>)
    /\ match' = [match EXCEPT !.stage = "trade", !.i = @ + 1]
    /\ UNCHANGED <<pc, closed_positions, open_positions>>
    /\ MatchFrame

\* after all trades of the key: for lot in open_lots: open_positions.append(...)
MatchKeyEnd ==
    /\ match.stage = "trade"
    /\ match.i > Len(MatchListAt)
    /\ open_positions' = open_positions \o OpenOf(MatchKeyAt, match.open_lots)
    /\ match' = [match EXCEPT !.stage = "key", !.k = @ + 1, !.open_lots = <<>>]
    /\ UNCHANGED <<pc, closed_positions>>
    /\ MatchFrame

\* after all keys: the batch INSERT of closed_positions
MatchInsertClosed ==
    /\ match.stage = "key"
    /\ match.k > Len(trades_by_key)
    /\ tx' = InsertClosed(tx, closed_positions)
    /\ positions' = AfterExecute(positions, tx')
    /\ pc' = "insert_open"
    /\ match' = NoMatch
    /\ UNCHANGED <<trades, trades_by_key, closed_positions, open_positions,
                   runs, result, cause, preRun, synced>>
    /\ UNCHANGED <<optionVars, reportVars, concurrentVars, errorVars>>

NextMatcher ==
    \/ SyncRead
    \/ SyncDelete
    \/ MatchStart
    \/ MatchKeyStart
    \/ MatchBuy
    \/ MatchSell
    \/ MatchOther
    \/ MatchIterate
    \/ MatchLoopExit
    \/ MatchKeyEnd
    \/ MatchInsertClosed
    \/ SyncInsertOpen
    \/ SyncCommit

SpecMatcher == InitMatcherSpec /\ [][NextMatcher]_vars

-----------------------------------------------------------------------------
(* Histories over several keys: one ticker on two platforms and a second   *)
(* ticker on the first platform.                                           *)

KeyInputs ==
    { Input(AAPL1, Num(Dollars(100)), Num(Shares(10)), 1, BUY),
      Input(AAPL1, Num(Dollars(120)), Num(Shares(4)),  2, SELL),
      Input(AAPL2, Num(Dollars(110)), Num(Shares(5)),  1, BUY),
      Input(AAPL2, Num(Dollars(125)), Num(Shares(3)),  2, SELL),
      Input(MSFT1, Num(Dollars(300)), Num(Shares(8)),  1, BUY),
      Input(MSFT1, Num(Dollars(310)), Num(Shares(6)),  2, SELL) }

InitKeys == InitFrom(KeyInputs)

SpecKeys == InitKeys /\ [][NextHistory]_vars

-----------------------------------------------------------------------------
(* Histories with the side written in several ways *)

BUY_ == <<"B", "U", "Y">>

buy_ == <<" ", "b", "u", "y", " ">>

\* trade_type is None
MissingSide == <<>>

SideInputs ==
    { Input(AAPL1, Num(Dollars(100)), Num(Shares(10)), 1, Buy_),
      Input(AAPL1, Num(Dollars(110)), Num(Shares(5)),  1, BUY_),
      Input(AAPL1, Num(Dollars(105)), Num(Shares(3)),  1, buy_),
      Input(AAPL1, Num(Dollars(120)), Num(Shares(4)),  2, Sell_),
      Input(AAPL1, Num(Dollars(125)), Num(Shares(2)),  2, SELL_),
      Input(AAPL1, Num(Dollars(130)), Num(Shares(1)),  2, sell_),
      Input(AAPL1, Num(Dollars(120)), Num(Shares(7)),  2, HOLD),
      Input(AAPL1, Num(Dollars(120)), Num(Shares(6)),  1, MissingSide) }

InitSides == InitFrom(SideInputs)

SpecSides == InitSides /\ [][NextHistory]_vars

-----------------------------------------------------------------------------
(* Two browser sessions press "Sync Positions from Trades": each runs      *)
(* sync_positions_from_trades in its own database session (transaction).   *)
(* A statement of a transaction sees the committed table and what its own  *)
(* transaction wrote; a DELETE waits while another transaction holds an    *)
(* uncommitted delete of a row it matches.                                 *)

ConcurrentInputs ==
    { Input(AAPL1, Num(Dollars(100)), Num(Shares(10)), 1, BUY),
      Input(AAPL1, Num(Dollars(120)), Num(Shares(4)),  2, SELL),
      Input(MSFT1, Num(Dollars(300)), Num(Shares(8)),  1, BUY) }

InitConcurrent == InitFrom(ConcurrentInputs)

\* the rows of a table the DELETE statements of all_keys match
MatchedByDelete(table, ks) ==
    LET hit == {r \in BagToSet(table) :
                   \E n \in 1..Len(ks) : DeleteMatches(r, ks[n])}
    IN  [r \in hit |-> table[r]]

ConcurrentFrame ==
    UNCHANGED <<trades, pc, tx, trades_by_key, closed_positions, open_positions,
                cause, preRun, synced, optionVars, reportVars, matcherVars, errorVars>>

\* the button of session s: the SELECT and the grouping loop
RunnerRead(s) ==
    /\ runners[s].pc = "idle"
    /\ runs < MaxRuns
    /\ ~ConversionRaises(trades)
    /\ runs' = runs + 1
    /\ runners' = [runners EXCEPT ![s] =
                      [NoRun EXCEPT !.pc = "delete",
                                    !.trades_by_key = GroupAll(trades)]]
    /\ UNCHANGED <<positions, result>>
    /\ ConcurrentFrame

\* the DELETE of every key of all_keys, in the transaction of session s
RunnerDelete(s) ==
    /\ runners[s].pc = "delete"
    /\ \A o \in Sessions \ {s} :
          MatchedByDelete(runners[o].deleted, AllKeys(runners[s].trades_by_key)) = EmptyBag
    /\ runners' = [runners EXCEPT ![s].pc = "insert_closed",
                                  ![s].deleted =
                                      MatchedByDelete(positions, AllKeys(runners[s].trades_by_key))]
    /\ UNCHANGED <<positions, runs, result>>
    /\ ConcurrentFrame

\* the matching loop and the batch INSERT of closed_positions
RunnerInsertClosed(s) ==
    /\ runners[s].pc = "insert_closed"
    /\ LET m == MatchAll(runners[s].trades_by_key, 1, [closed |-> <<>>, open |-> <<>>])
       IN  runners' = [runners EXCEPT ![s].pc = "insert_open",
                                      ![s].closed_positions = m.closed,
                                      ![s].open_positions = m.open,
                                      ![s].inserted = InsertClosed(@, m.closed)]
    /\ UNCHANGED <<positions, runs, result>>
    /\ ConcurrentFrame

\* the batch INSERT of open_positions
RunnerInsertOpen(s) ==
    /\ runners[s].pc = "insert_open"
    /\ runners' = [runners EXCEPT ![s].pc = "commit",
                                  ![s].inserted = InsertOpen(@, runners[s].open_positions)]
    /\ UNCHANGED <<positions, runs, result>>
    /\ ConcurrentFrame

\* session.commit() of session s: its deletes and inserts reach the table
RunnerCommit(s) ==
    /\ runners[s].pc = "commit"
    /\ positions' = (positions (-) runners[s].deleted) (+) runners[s].inserted
    /\ runners' = [runners EXCEPT ![s] = NoRun]
    /\ result' = "ok"
    /\ UNCHANGED runs
    /\ ConcurrentFrame

NextConcurrent ==
    \/ \E s \in Sessions : RunnerRead(s)
    \/ \E s \in Sessions : RunnerDelete(s)
    \/ \E s \in Sessions : RunnerInsertClosed(s)
    \/ \E s \in Sessions : RunnerInsertOpen(s)
    \/ \E s \in Sessions : RunnerCommit(s)

SpecConcurrent == InitConcurrent /\ [][NextConcurrent]_vars

-----------------------------------------------------------------------------
(* Option trade operations.  A session of data_entry loads the open        *)
(* option trades and renders the close form for one of them; on "Confirm   *)
(* Close" it calls close_option_trade and then, for assigned or exercised, *)
(* insert_trade.  Each of the two is a transaction of its own.             *)

\* insert_option_trade, called by option_trades_data_entry
InsertOptionTrade(input) ==
    /\ Len(option_trades) < MaxOptions
    /\ option_trades' = Append(option_trades, NewOption(input, Len(option_trades) + 1))
    /\ UNCHANGED <<trades, syncVars, sess, ret, synthetic, reportVars>>
    /\ UNCHANGED <<matcherVars, concurrentVars, errorVars>>

\* data_entry: load_option_trades(status="open"), the selectbox and the form
\* of the selected trade
LoadOpenTrades(s) ==
    /\ sess[s].pc = "idle"
    /\ \E i \in 1..Len(option_trades) :
          /\ option_trades[i].status = "open"
          /\ sess' = [sess EXCEPT ![s] = [SessIdle EXCEPT !.pc = "form",
                                                          !.trade = option_trades[i]]]
    /\ UNCHANGED <<trades, syncVars, option_trades, ret, synthetic, reportVars>>
    /\ UNCHANGED <<matcherVars, concurrentVars, errorVars>>

\* "Confirm Close": close_option_trade for the trade of the form
ConfirmClose(s, f) ==
    /\ sess[s].pc = "form"
    /\ ret' = [found |-> Found(option_trades, sess[s].trade.id), value |-> "None"]
    /\ option_trades' = CloseOptionTrade(option_trades, sess[s].trade.id, f)
    /\ sess' = [sess EXCEPT ![s] =
                   IF f.status \in {"assigned", "exercised"}
                   THEN [@ EXCEPT !.pc = "insert", !.close_status = f.status,
                                  !.close_date = f.close_date]
                   ELSE SessIdle]
    /\ UNCHANGED <<trades, syncVars, synthetic, reportVars>>
    /\ UNCHANGED <<matcherVars, concurrentVars, errorVars>>

\* close_option_trade fails in the store: its session is rolled back and the
\* exception ends the script run of the session
ConfirmCloseFails(s) ==
    /\ sess[s].pc = "form"
    /\ ret' = [found |-> Found(option_trades, sess[s].trade.id), value |-> "raised"]
    /\ sess' = [sess EXCEPT ![s] = SessIdle]
    /\ UNCHANGED <<trades, syncVars, option_trades, synthetic, reportVars>>
    /\ UNCHANGED <<matcherVars, concurrentVars, errorVars>>

\* the insert_trade of the close flow, after close_option_trade committed
InsertSynthetic(s) ==
    /\ sess[s].pc = "insert"
    /\ Len(trades) < MaxTrades
    /\ trades' = Append(trades, WithId(SyntheticInput(sess[s].trade, sess[s].close_date),
                                       Len(trades) + 1))
    /\ synthetic' = Append(synthetic, [trade_id  |-> Len(trades) + 1,
                                       option_id |-> sess[s].trade.id])
    /\ sess' = [sess EXCEPT ![s] = SessIdle]
    /\ UNCHANGED <<syncVars, option_trades, ret, reportVars>>
    /\ UNCHANGED <<matcherVars, concurrentVars, errorVars>>

\* insert_trade fails in the store: nothing is inserted and the exception ends
\* the script run of the session
InsertSyntheticFails(s) ==
    /\ sess[s].pc = "insert"
    /\ sess' = [sess EXCEPT ![s] = SessIdle]
    /\ UNCHANGED <<trades, syncVars, option_trades, ret, synthetic, reportVars>>
    /\ UNCHANGED <<matcherVars, concurrentVars, errorVars>>

\* close_option_trade called with a trade_id that is not in option_trades
CloseOptionTradeMissing(trade_id, f) ==
    /\ ~Found(option_trades, trade_id)
    /\ ret' = [found |-> FALSE, value |-> "None"]
    /\ option_trades' = CloseOptionTrade(option_trades, trade_id, f)
    /\ UNCHANGED <<trades, syncVars, sess, synthetic, reportVars>>
    /\ UNCHANGED <<matcherVars, concurrentVars, errorVars>>

\* no trade, an empty positions table, no reconciliation running
InitOptionSpec ==
    /\ trades = <<>>
    /\ positions = EmptyBag
    /\ pc = "idle"
    /\ tx = positions
    /\ trades_by_key = <<>>
    /\ closed_positions = <<>>
    /\ open_positions = <<>>
    /\ runs = 0
    /\ result = "none"
    /\ cause = ""
    /\ preRun = positions
    /\ synced = FALSE
    /\ InitOptions
    /\ InitReports
    /\ InitMatcher
    /\ InitRunners
    /\ InitErrors

NextOptions ==
    \/ \E input \in OptionInputs : InsertOptionTrade(input)
    \/ \E s \in Sessions : LoadOpenTrades(s)
    \/ \E s \in Sessions : \E f \in CloseInputs : ConfirmClose(s, f)
    \/ \E s \in Sessions : ConfirmCloseFails(s)
    \/ \E s \in Sessions : InsertSynthetic(s)
    \/ \E s \in Sessions : InsertSyntheticFails(s)
    \/ \E trade_id \in 1..(MaxOptions + 1) : \E f \in CloseInputs :
          CloseOptionTradeMissing(trade_id, f)

SpecOptions == InitOptionSpec /\ [][NextOptions]_vars

-----------------------------------------------------------------------------
(* Reports: aggregate_gains of taxes_ui and get_option_trades_summary.     *)
(* A date is the number of days since 2023-01-01.  A gain is hundredths of  *)
(* a cent, so that a price in cents times a quantity in hundredths of a    *)
(* share is exact; the quantities of the report inputs are multiples of    *)
(* 0.01 share.  A tax is a gain times a rate in per cent.  The stored      *)
(* profit_loss columns stay cents.                                         *)

\* rates in per cent
LONG_TERM_TAX_RATE == 15

SHORT_TERM_TAX_RATE == 24

LONG_TERM_DAYS == 365

\* a date stored as the text of an ISO date
IsoText(day) == [kind |-> "iso", val |-> day]

\* _parse_date: a datetime at midnight of the day for a date and for ISO text,
\* None for text that is no ISO date and for everything else
ParseDate(dt) ==
    IF dt.kind = "num" \/ dt.kind = "iso" THEN Num(dt.val) ELSE SqlNull

\* x.year: 2023 has 365 days, 2024 has 366
YearOf(day) == IF day < 365 THEN 2023 ELSE IF day < 731 THEN 2024 ELSE 2025

\* pos.get(column, 0) or 0
GetOr0(x) == IF x.kind = "num" THEN x.val ELSE 0

\* A default of "Sell" for a position without trade_type.
PositionSideDefaultSell(trade_type) ==
    IF trade_type.kind = "null" THEN <<"S", "e", "l", "l">> ELSE trade_type.val

\* pos.get("trade_type") or "Buy"
PositionSide(trade_type) == IF trade_type.kind = "null" THEN Buy_ ELSE trade_type.val

\* 0.01 share in quantity units
CentiShare == QtyUnit \div 100

\* n hundredths of a share
Hundredths(n) == n * CentiShare

\* cents as a gain
GainOfCents(cents) == cents * 100

\* gain of a closed stock position
StockGain(pos) ==
    LET entry_price == GetOr0(pos.entry_price)
        exit_price  == GetOr0(pos.exit_price)
        quantity    == GetOr0(pos.quantity) \div CentiShare
    IN  IF Lower(PositionSide(pos.trade_type)) = SELL
        THEN (entry_price - exit_price) * quantity
        ELSE (exit_price - entry_price) * quantity

\* A classifier that counts the 365th day as long term.
TermFrom365(holding_period) ==
    IF holding_period >= LONG_TERM_DAYS THEN "Long Term" ELSE "Short Term"

\* term = "Long Term" if holding_period > LONG_TERM_DAYS else "Short Term"
Term(holding_period) ==
    IF holding_period > LONG_TERM_DAYS THEN "Long Term" ELSE "Short Term"

\* tax_rate = LONG_TERM_TAX_RATE if term == "Long Term" else SHORT_TERM_TAX_RATE
TaxRate(term) ==
    IF term = "Long Term" THEN LONG_TERM_TAX_RATE ELSE SHORT_TERM_TAX_RATE

EmptyDict == <<>>

\* d.setdefault(k, v)
SetDefault(d, k, v) ==
    IF k \in DOMAIN d THEN d
    ELSE [x \in DOMAIN d \cup {k} |-> IF x = k THEN v ELSE d[x]]

\* the four statements that add one gain to yearly and yearly_breakdown
Accumulate(acc, year, asset, term, gain) ==
    LET y == SetDefault(acc.yearly, year, [gain |-> 0, tax |-> 0])
        b == SetDefault(acc.breakdown, <<year, asset, term>>, 0)
    IN  [yearly    |-> [y EXCEPT ![year] = [gain |-> @.gain + gain,
                                            tax  |-> @.tax + gain * TaxRate(term)]],
         breakdown |-> [b EXCEPT ![<<year, asset, term>>] = @ + gain]]

\* the body of "for pos in closed_positions"
StockStep(acc, pos) ==
    LET entry_date == ParseDate(pos.entry_date)
        exit_date  == ParseDate(pos.exit_date)
    IN  IF exit_date = SqlNull \/ entry_date = SqlNull THEN acc
        ELSE Accumulate(acc, YearOf(exit_date.val), "Stock",
                        Term(exit_date.val - entry_date.val), StockGain(pos))

\* opt.get(column) or opt.get(other): option_trades has no column entry_time
\* or exit_time, so the second get gives None
GetOrNone(x) == IF x.kind = "null" THEN SqlNull ELSE x

\* profit_loss = opt.get("profit_loss", 0) or 0, then float() or 0.0
OptionGain(opt) ==
    IF opt.profit_loss.kind = "num" THEN GainOfCents(opt.profit_loss.val) ELSE 0

\* A loop body that books a leg without dates in the first year at short term.
OptionStepZeroFill(acc, opt) ==
    LET trade_date == ParseDate(GetOrNone(opt.trade_date))
        close_date == ParseDate(GetOrNone(opt.close_date))
    IN  IF close_date = SqlNull \/ trade_date = SqlNull
        THEN Accumulate(acc, YearOf(0), "Options", "Short Term", 0)
        ELSE Accumulate(acc, YearOf(close_date.val), "Options",
                        Term(close_date.val - trade_date.val), OptionGain(opt))

\* the body of "for opt in closed_options"
OptionStep(acc, opt) ==
    LET trade_date == ParseDate(GetOrNone(opt.trade_date))
        close_date == ParseDate(GetOrNone(opt.close_date))
    IN  IF close_date = SqlNull \/ trade_date = SqlNull THEN acc
        ELSE Accumulate(acc, YearOf(close_date.val), "Options",
                        Term(close_date.val - trade_date.val), OptionGain(opt))

RECURSIVE StockLoop(_, _)
StockLoop(acc, rows) ==
    IF rows = <<>> THEN acc ELSE StockLoop(StockStep(acc, Head(rows)), Tail(rows))

RECURSIVE OptionLoop(_, _)
OptionLoop(acc, rows) ==
    IF rows = <<>> THEN acc ELSE OptionLoop(OptionStep(acc, Head(rows)), Tail(rows))

\* the rows of a table (a bag) as a list, each as often as the table holds it
RECURSIVE ListOf(_)
ListOf(table) ==
    IF table = EmptyBag THEN <<>>
    ELSE LET r == CHOOSE x \in BagToSet(table) : TRUE
         IN  <<r>> \o ListOf(table (-) SetToBag({r}))

\* load_closed_positions: SELECT ... FROM positions WHERE position_status = 'close'
LoadClosedPositions(table) ==
    SelectSeq(ListOf(table), LAMBDA r : r.position_status = "close")

\* load_option_trades(status=status)
LoadOptionTrades(table, status) == SelectSeq(table, LAMBDA o : o.status = status)

\* closed_options of aggregate_gains: for status in ["expired", "exercised", "closed"]
TaxedOptions(table) ==
    LoadOptionTrades(table, "expired") \o LoadOptionTrades(table, "exercised")
        \o LoadOptionTrades(table, "closed")

\* aggregate_gains(): yearly and yearly_breakdown
AggregateGains(pos_table, opt_table) ==
    OptionLoop(StockLoop([yearly |-> EmptyDict, breakdown |-> EmptyDict],
                         LoadClosedPositions(pos_table)),
               TaxedOptions(opt_table))

\* closed_trades of get_option_trades_summary
SummaryOptions(table) ==
    LoadOptionTrades(table, "expired") \o LoadOptionTrades(table, "exercised")
        \o LoadOptionTrades(table, "closed") \o LoadOptionTrades(table, "assigned")

RECURSIVE SumProfitLoss(_)
SumProfitLoss(rows) ==
    IF rows = <<>> THEN 0
    ELSE GetOr0(Head(rows).profit_loss) + SumProfitLoss(Tail(rows))

\* get_option_trades_summary(): the three columns of its one row; the total is
\* cents, which round(total_pnl, 2) leaves as they are
OptionTradesSummary(table) ==
    [open_count   |-> Len(LoadOptionTrades(table, "open")),
     closed_count |-> Len(SummaryOptions(table)),
     total_pnl    |-> SumProfitLoss(SummaryOptions(table))]

\* a closed position as sync_positions_from_trades writes it: 10 shares bought
\* at 100 and sold at 120
ReportPosition(entry_date, exit_date) ==
    [ticker          |-> "AAPL",
     trade_type      |-> SqlNull,
     position_status |-> "close",
     entry_price     |-> Num(Dollars(100)),
     quantity        |-> Num(Shares(10)),
     entry_date      |-> entry_date,
     exit_price      |-> Num(Dollars(120)),
     exit_date       |-> exit_date,
     platform_id     |-> Num(1),
     profit_loss     |-> Num(Dollars(200))]

\* positions held 365 and 366 days, within a year, with dates as ISO text,
\* without entry date, with an exit date that is no date; and an open position
ReportPositions ==
    { ReportPosition(Num(0), Num(365)),
      ReportPosition(Num(0), Num(366)),
      ReportPosition(IsoText(100), IsoText(300)),
      ReportPosition(SqlNull, Num(400)),
      ReportPosition(Num(10), BadText),
      StaleRow(MSFT1) }

\* an option trade after its close
ReportOption(status, trade_date, close_date, profit_loss) ==
    [NewOption(OptionInput(AAPL1, CoveredCall, Num(Dollars(150)), trade_date,
                           "credit", Num(Dollars(2)), Num(0)), 0)
        EXCEPT !.status = status, !.close_date = close_date,
               !.option_close_price = Num(50), !.close_fee = Num(0),
               !.profit_loss = profit_loss]

\* option trades of every status, held 365 and 366 days, and without dates
ReportOptions ==
    << ReportOption("closed",    Num(0),   Num(365), Num(15000)),
       ReportOption("expired",   Num(0),   Num(366), Num(0 - 5000)),
       ReportOption("assigned",  Num(300), Num(320), Num(11500)),
       ReportOption("exercised", SqlNull,  Num(400), Num(7000)),
       ReportOption("closed",    Num(10),  SqlNull,  Num(3000)),
       ReportOption("open",      Num(20),  SqlNull,  SqlNull) >>

\* the rows of ReportOptions picked by S, in their order, with the ids of the table
RECURSIVE PickOptions(_, _, _)
PickOptions(S, i, table) ==
    IF i > Len(ReportOptions) THEN table
    ELSE PickOptions(S, i + 1,
                     IF i \in S
                     THEN Append(table, [ReportOptions[i] EXCEPT !.id = Len(table) + 1])
                     ELSE table)

\* any positions table and any option_trades table made of the report rows
InitReportSpec ==
    /\ trades = <<>>
    /\ \E S \in SUBSET ReportPositions : positions = SetToBag(S)
    /\ pc = "idle"
    /\ tx = positions
    /\ trades_by_key = <<>>
    /\ closed_positions = <<>>
    /\ open_positions = <<>>
    /\ runs = 0
    /\ result = "none"
    /\ cause = ""
    /\ preRun = positions
    /\ synced = FALSE
    /\ \E S \in SUBSET (1..Len(ReportOptions)) :
          option_trades = PickOptions(S, 1, <<>>)
    /\ sess = [s \in Sessions |-> SessIdle]
    /\ ret = NoCall
    /\ synthetic = <<>>
    /\ InitReports
    /\ InitMatcher
    /\ InitRunners
    /\ InitErrors

\* the taxes page calls aggregate_gains
CallAggregateGains ==
    /\ LET r == AggregateGains(positions, option_trades)
       IN  /\ yearly' = r.yearly
           /\ yearly_breakdown' = r.breakdown
    /\ UNCHANGED <<trades, syncVars, optionVars, summary>>
    /\ UNCHANGED <<matcherVars, concurrentVars, errorVars>>

\* the dashboard calls get_option_trades_summary
CallOptionTradesSummary ==
    /\ summary' = OptionTradesSummary(option_trades)
    /\ UNCHANGED <<trades, syncVars, optionVars, yearly, yearly_breakdown>>
    /\ UNCHANGED <<matcherVars, concurrentVars, errorVars>>

NextReports ==
    \/ CallAggregateGains
    \/ CallOptionTradesSummary

SpecReports == InitReportSpec /\ [][NextReports]_vars

-----------------------------------------------------------------------------
(* The tax report over the positions that sync_positions_from_trades       *)
(* wrote: trades of fractional quantities, sold in two tax years.          *)

\* buy 2.55 @ 1.00 and buy 10 @ 100 in 2023; sell 1.27 @ 1.33 in 2023,
\* sell 2 @ 1.55 and sell 4 @ 120 in 2024
TaxInputs ==
    { Input(AAPL1, Num(100),          Num(Hundredths(255)), 10,  BUY),
      Input(AAPL1, Num(Dollars(100)), Num(Shares(10)),      20,  BUY),
      Input(AAPL1, Num(133),          Num(Hundredths(127)), 200, SELL),
      Input(AAPL1, Num(155),          Num(Shares(2)),       500, SELL),
      Input(AAPL1, Num(Dollars(120)), Num(Shares(4)),       510, SELL) }

InitTax == InitFrom(TaxInputs)

NextTax ==
    \/ SyncRead
    \/ SyncDelete
    \/ SyncInsertClosed
    \/ SyncInsertOpen
    \/ SyncCommit
    \/ CallAggregateGains

SpecTax == InitTax /\ [][NextTax]_vars

-----------------------------------------------------------------------------
(* The wrappers of ui/error_handling: handle_api_error and CircuitBreaker. *)
(* A wrapped function ends by returning a value or by raising an exception *)
(* of some class; "except Exception" catches the instances of Exception    *)
(* and lets every other BaseException (KeyboardInterrupt, SystemExit) go   *)
(* on to the caller.  One caller at a time calls a wrapper; time passes    *)
(* between calls and while the wrapped function runs.                      *)

\* seconds the clock of the model runs
MaxTime == 6

\* failures the model counts in one breaker
MaxFailures == 6

\* what a wrapped function returns
ReturnValues == {"quote", "None"}

\* the classes of the exceptions a wrapped function raises
ExceptionClasses == {"Exception", "ConnectionError", "KeyboardInterrupt", "SystemExit"}

\* An except clause that names ConnectionError alone.
CaughtAsConnectionError(class) == class = "ConnectionError"

\* isinstance(e, Exception): what "except Exception" catches
CaughtAsException(class) == class \in {"Exception", "ConnectionError"}

\* how a wrapped function ends
Returns(value) == [kind |-> "return", value |-> value, class |-> "none"]

Raises(class) == [kind |-> "raise", value |-> "none", class |-> class]

Outcomes == {Returns(v) : v \in ReturnValues} \cup {Raises(c) : c \in ExceptionClasses}

\* a finished call of a wrapper, as its caller sees it
WrapperResult(wrapper, invoked, outcome, returned, raised, warned) ==
    [wrapper |-> wrapper, stage |-> "done", invoked |-> invoked, outcome |-> outcome,
     returned |-> returned, raised |-> raised, warned |-> warned]

\* the wrapper of handle_api_error, called once
HandleApiError(outcome) ==
    IF outcome.kind = "return"
    THEN WrapperResult("handle_api_error", TRUE, outcome, outcome.value, "none", FALSE)
    ELSE IF CaughtAsException(outcome.class)
    THEN WrapperResult("handle_api_error", TRUE, outcome, "None", "none", TRUE)
    ELSE WrapperResult("handle_api_error", TRUE, outcome, "none", outcome.class, FALSE)

\* the breakers the model constructs: CircuitBreaker(failure_threshold, timeout)
Breakers == {NewBreaker(t, s) : t \in {1, 2, 3}, s \in {1, 2}}

\* A test that lets the call through once timeout seconds have passed.
TimedOutAtTimeout(b, t) == t - b.last_failure_time >= b.timeout

\* if time.time() - self.last_failure_time > self.timeout
TimedOut(b, t) == t - b.last_failure_time > b.timeout

\* the wrapper of the breaker is running the wrapped function
Running ==
    [wrapper |-> "circuit_breaker", stage |-> "running", invoked |-> TRUE,
     outcome |-> "none", returned |-> "none", raised |-> "none", warned |-> FALSE]

\* A breaker in which every success sets failure_count to 0.
AfterSuccessResets(b) ==
    IF b.state = "half_open"
    THEN [b EXCEPT !.state = "closed", !.failure_count = 0]
    ELSE [b EXCEPT !.failure_count = 0]

\* the breaker after a call in which the function returned
AfterSuccess(b) ==
    IF b.state = "half_open"
    THEN [b EXCEPT !.state = "closed", !.failure_count = 0]
    ELSE b

\* the breaker after a call in which the function raised an Exception at time t
AfterFailure(b, t) ==
    LET counted == [b EXCEPT !.failure_count = @ + 1, !.last_failure_time = t]
    IN  IF counted.failure_count >= counted.failure_threshold
        THEN [counted EXCEPT !.state = "open"]
        ELSE counted

\* any breaker, never called; no wrapper was called
InitErrorSpec ==
    /\ trades = <<>>
    /\ positions = EmptyBag
    /\ pc = "idle"
    /\ tx = positions
    /\ trades_by_key = <<>>
    /\ closed_positions = <<>>
    /\ open_positions = <<>>
    /\ runs = 0
    /\ result = "none"
    /\ cause = ""
    /\ preRun = positions
    /\ synced = FALSE
    /\ InitOptions
    /\ InitReports
    /\ InitMatcher
    /\ InitRunners
    /\ breaker \in Breakers
    /\ now = 0
    /\ call = NoWrapperCall

ErrorFrame ==
    UNCHANGED <<trades, syncVars, optionVars, reportVars, matcherVars, concurrentVars>>

\* a second passes
Tick ==
    /\ now < MaxTime
    /\ now' = now + 1
    /\ UNCHANGED <<breaker, call>>
    /\ ErrorFrame

\* a call of a function wrapped with handle_api_error
CallHandleApiError(outcome) ==
    /\ call.stage # "running"
    /\ call' = HandleApiError(outcome)
    /\ UNCHANGED <<breaker, now>>
    /\ ErrorFrame

\* a call of a function wrapped with the breaker, while it is open and the
\* timeout has not passed: return None
BreakerRejects ==
    /\ call.stage # "running"
    /\ breaker.state = "open"
    /\ ~TimedOut(breaker, now)
    /\ call' = WrapperResult("circuit_breaker", FALSE, "none", "None", "none", FALSE)
    /\ UNCHANGED <<breaker, now>>
    /\ ErrorFrame

\* a call of a function wrapped with the breaker that reaches the function
BreakerInvokes ==
    /\ call.stage # "running"
    /\ breaker.state = "open" => TimedOut(breaker, now)
    /\ breaker' = IF breaker.state = "open"
                  THEN [breaker EXCEPT !.state = "half_open"]
                  ELSE breaker
    /\ call' = Running
    /\ UNCHANGED now
    /\ ErrorFrame

\* the function returns
BreakerReturns(value) ==
    /\ call.stage = "running"
    /\ breaker' = AfterSuccess(breaker)
    /\ call' = WrapperResult("circuit_breaker", TRUE, Returns(value), value, "none", FALSE)
    /\ UNCHANGED now
    /\ ErrorFrame

\* the function raises: an Exception is counted and raised again, any other
\* BaseException passes through
BreakerRaises(class) ==
    /\ call.stage = "running"
    /\ breaker.failure_count < MaxFailures
    /\ breaker' = IF CaughtAsException(class) THEN AfterFailure(breaker, now) ELSE breaker
    /\ call' = WrapperResult("circuit_breaker", TRUE, Raises(class), "none", class, FALSE)
    /\ UNCHANGED now
    /\ ErrorFrame

NextErrors ==
    \/ Tick
    \/ \E outcome \in Outcomes : CallHandleApiError(outcome)
    \/ BreakerRejects
    \/ BreakerInvokes
    \/ \E value \in ReturnValues : BreakerReturns(value)
    \/ \E class \in ExceptionClasses : BreakerRaises(class)

SpecErrors == InitErrorSpec /\ [][NextErrors]_vars

-----------------------------------------------------------------------------
(* Vocabulary of the properties.  The order of a key's trades is stated    *)
(* here on its own, from the dates and ids, not through Precedes.          *)

\* the matcher has run and its lists are still held by the call
Matched == pc \in {"insert_open", "commit"}

\* a is before b in ascending (date, id)
DateIdBefore(a, b) == a.date < b.date \/ (a.date = b.date /\ a.id < b.id)

RECURSIVE SumQuantity(_)
SumQuantity(ps) ==
    IF ps = <<>> THEN 0 ELSE Head(ps).quantity + SumQuantity(Tail(ps))

\* the closed fragments taken from the lot of buy b
FragmentsOfBuy(b) == SelectSeq(closed_positions, LAMBDA p : p.buy_id = b.id)

\* the closed fragments emitted for sell s
FragmentsOfSell(s) == SelectSeq(closed_positions, LAMBDA p : p.sell_id = s.id)

\* the open position written for the lot of buy b, if any
OpenOfBuy(b) == SelectSeq(open_positions, LAMBDA p : p.buy_id = b.id)

\* the normalised trades of every key, as the call holds them
TradeLists == {trades_by_key[i].trade_list : i \in 1..Len(trades_by_key)}

TradesIn(tl) == {tl[i] : i \in 1..Len(tl)}

BuysIn(tl) == {t \in TradesIn(tl) : t.trade_type = BUY}

SellsIn(tl) == {t \in TradesIn(tl) : t.trade_type = SELL}

-----------------------------------------------------------------------------
(* C1 *)

\* C1 (conservation): once the matcher has run, for every buy of every key the
\* quantity of the open position of its lot (0 when there is none) plus the
\* quantities of the closed fragments taken from the lot is the buy's
\* normalised quantity, to less than 1e-6.
C1_Conservation ==
    Matched =>
        \A tl \in TradeLists : \A b \in BuysIn(tl) :
            /\ Len(OpenOfBuy(b)) <= 1
            /\ Abs(SumQuantity(OpenOfBuy(b)) + SumQuantity(FragmentsOfBuy(b))
                   - b.quantity) < Micro

\* a lot that was consumed in part: it has a closed fragment and an open remainder
C1_Witness ==
    /\ Matched
    /\ \E tl \in TradeLists : \E b \in BuysIn(tl) :
          /\ FragmentsOfBuy(b) # <<>>
          /\ OpenOfBuy(b) # <<>>
          /\ OpenOfBuy(b)[1].quantity > 0
          /\ OpenOfBuy(b)[1].quantity < b.quantity

-----------------------------------------------------------------------------
(* C2 *)

\* what sells up to and including s took from the lot of buy b
TakenUpTo(b, s) ==
    SumQuantity(SelectSeq(FragmentsOfBuy(b),
                          LAMBDA p : p.sell_id = s.id
                                     \/ \E tl \in TradeLists : \E o \in SellsIn(tl) :
                                           o.id = p.sell_id /\ DateIdBefore(o, s)))

\* C2 (FIFO order): every key's trades are processed in ascending (date, id),
\* and whenever a sell takes a fragment from a lot, every lot of the key from a
\* buy earlier in that order has been consumed in full by the sells up to that
\* one.
C2_FifoOrder ==
    Matched =>
        \A tl \in TradeLists :
            /\ \A i, j \in 1..Len(tl) : i < j => DateIdBefore(tl[i], tl[j])
            /\ \A b \in BuysIn(tl) : \A s \in SellsIn(tl) :
                  (\E n \in 1..Len(closed_positions) :
                        /\ closed_positions[n].buy_id = b.id
                        /\ closed_positions[n].sell_id = s.id)
                  => \A e \in BuysIn(tl) :
                        DateIdBefore(e, b) => TakenUpTo(e, s) = e.quantity

\* two buys and a later-entered sell on one date: the sell took from the buy
\* with the lower id and left the other untouched
C2_Witness ==
    /\ Matched
    /\ \E tl \in TradeLists : \E b1, b2 \in BuysIn(tl) : \E s \in SellsIn(tl) :
          /\ b1.date = b2.date /\ s.date = b1.date
          /\ b1.id < b2.id /\ b2.id < s.id
          /\ FragmentsOfBuy(b2) = <<>>
          /\ \E n \in 1..Len(closed_positions) :
                /\ closed_positions[n].buy_id = b1.id
                /\ closed_positions[n].sell_id = s.id

-----------------------------------------------------------------------------
(* C3 *)

\* the rows of one (ticker, platform_id) in a positions table
RowsOfKey(table, key) ==
    LET mine == {r \in BagToSet(table) : <<r.ticker, r.platform_id>> = key}
    IN  [r \in mine |-> table[r]]

\* the trades table rows of one (ticker, platform_id)
TradesOfKey(key) == {r \in RowsOf(trades) : KeyOf(r) = key}

\* the trade of that id among the normalised trades of the call
TradeOfId(id) ==
    CHOOSE t \in UNION {TradesIn(tl) : tl \in TradeLists} : t.id = id

\* the first n fragments of closed_positions
FragmentsBefore(n) == SubSeq(closed_positions, 1, n - 1)

\* what was left of the lot when fragment n was cut from it
LotRemainingBefore(n) ==
    LET f == closed_positions[n]
    IN  TradeOfId(f.buy_id).quantity
        - SumQuantity(SelectSeq(FragmentsBefore(n), LAMBDA p : p.buy_id = f.buy_id))

\* what the sell still had to match when fragment n was cut
SellUnmatchedBefore(n) ==
    LET f == closed_positions[n]
    IN  TradeOfId(f.sell_id).quantity
        - SumQuantity(SelectSeq(FragmentsBefore(n), LAMBDA p : p.sell_id = f.sell_id))

\* an AAPL / platform 1 position row, in dollars, shares and day numbers
AaplClosed(entry, shares, entry_day, exit, exit_day, pnl) ==
    [ticker          |-> "AAPL",
     trade_type      |-> SqlNull,
     position_status |-> "close",
     entry_price     |-> Num(entry * 100),
     quantity        |-> Num(shares * QtyUnit),
     entry_date      |-> Num(entry_day),
     exit_price      |-> Num(exit * 100),
     exit_date       |-> Num(exit_day),
     platform_id     |-> Num(1),
     profit_loss     |-> Num(pnl * 100)]

AaplOpen(entry, shares, entry_day) ==
    [ticker          |-> "AAPL",
     trade_type      |-> SqlNull,
     position_status |-> "open",
     entry_price     |-> Num(entry * 100),
     quantity        |-> Num(shares * QtyUnit),
     entry_date      |-> Num(entry_day),
     exit_price      |-> SqlNull,
     exit_date       |-> SqlNull,
     platform_id     |-> Num(1),
     profit_loss     |-> SqlNull]

\* C3 (partial fill): every closed fragment has the quantity
\* min(lot remaining, sell quantity still unmatched), the price and date of its
\* buy as entry, the price and date of its sell as exit, and profit_loss =
\* (sell price - buy price) * quantity rounded to cents; and for the history
\* buy 10@100, buy 5@110, sell 12@120 the rows about to be committed for the key
\* are exactly closed (100, 10, 120, pnl 200), closed (110, 2, 120, pnl 20) and
\* open (110, 3).
C3_PartialFill ==
    /\ Matched =>
          \A n \in 1..Len(closed_positions) :
              LET f == closed_positions[n]
                  b == TradeOfId(f.buy_id)
                  s == TradeOfId(f.sell_id)
              IN  /\ b.trade_type = BUY /\ s.trade_type = SELL
                  /\ f.quantity = Min(LotRemainingBefore(n), SellUnmatchedBefore(n))
                  /\ f.entry_price = b.price /\ f.entry_date = b.date
                  /\ f.exit_price = s.price /\ f.exit_date = s.date
                  /\ f.profit_loss = Round2(s.price - b.price, f.quantity)
    /\ (pc = "commit" /\ TradesOfKey(AAPL1) = RowsOf(ScenarioPartialFill)) =>
          RowsOfKey(tx, AAPL1) =
              SetToBag({AaplClosed(100, 10, 1, 120, 3, 200),
                        AaplClosed(110, 2, 2, 120, 3, 20),
                        AaplOpen(110, 3, 2)})

\* the history of the example was matched and is about to be committed
C3_Witness ==
    /\ pc = "commit"
    /\ TradesOfKey(AAPL1) = RowsOf(ScenarioPartialFill)
    /\ Len(closed_positions) = 2
    /\ Len(open_positions) = 1

-----------------------------------------------------------------------------
(* C4 *)

\* the trades of tl processed before t
EarlierIn(tl, t) == {o \in TradesIn(tl) : DateIdBefore(o, t)}

\* the total remaining quantity of the key's open lots when sell s is reached:
\* what the earlier buys brought less what the earlier sells took
AvailableAt(tl, s) ==
    LET RECURSIVE Total(_)
        Total(S) == IF S = {} THEN 0
                    ELSE LET t == CHOOSE x \in S : TRUE
                         IN  (IF t.trade_type = BUY
                              THEN t.quantity
                              ELSE 0 - SumQuantity(FragmentsOfSell(t)))
                             + Total(S \ {t})
    IN  Total({o \in EarlierIn(tl, s) : o.trade_type \in {BUY, SELL}})

\* C4 (excess sell is dropped), as claimed: a sell whose quantity exceeds the
\* total remaining quantity of the key's open lots gets fragments for exactly
\* that available quantity and leaves the queue empty (every earlier lot
\* consumed in full), and no fragment of it comes from a later buy.
C4_ExcessSellDropped ==
    Matched =>
        \A tl \in TradeLists : \A s \in SellsIn(tl) :
            s.quantity > AvailableAt(tl, s) =>
                /\ SumQuantity(FragmentsOfSell(s)) = AvailableAt(tl, s)
                /\ \A b \in BuysIn(tl) :
                      DateIdBefore(b, s) => TakenUpTo(b, s) = b.quantity
                /\ \A n \in 1..Len(FragmentsOfSell(s)) :
                      DateIdBefore(TradeOfId(FragmentsOfSell(s)[n].buy_id), s)

-----------------------------------------------------------------------------
(* C5 *)

\* C5 (idempotence), as claimed: a call that read the same trades table as the
\* committed call before it commits the positions table it found.
C5_Idempotent ==
    (pc = "commit" /\ synced) => tx = positions

-----------------------------------------------------------------------------
(* C6 *)

\* the rows the matcher computed for one key
ComputedRows(key) ==
    BagOfSeq(LET c == SelectSeq(closed_positions,
                                LAMBDA p : <<p.ticker, p.platform_id>> = key)
                 o == SelectSeq(open_positions,
                                LAMBDA p : <<p.ticker, p.platform_id>> = key)
             IN  [i \in 1..Len(c) |-> ClosedRow(c[i])]
                 \o [i \in 1..Len(o) |-> OpenRow(o[i])])

\* C6 (full rebuild per key), as claimed: for every key with at least one row
\* in the trades table, the rows of the key about to be committed are exactly
\* the rows the matcher computed, whatever rows the table held before.
C6_FullRebuild ==
    pc = "commit" =>
        \A key \in Keys :
            TradesOfKey(key) # {} => RowsOfKey(tx, key) = ComputedRows(key)

-----------------------------------------------------------------------------
(* C7 *)

\* C7 (keys with no trades are untouched): no step changes the committed rows
\* of a key that has no row in the trades table, and the session of a running
\* call holds the rows of such a key as they were when the call started.
C7_NoTradesUntouched ==
    /\ \A key \in Keys :
          TradesOfKey(key) = {} =>
              /\ RowsOfKey(positions, key) = RowsOfKey(preRun, key)
              /\ RowsOfKey(tx, key) = RowsOfKey(preRun, key)

\* a committed call that rebuilt one key and found rows of a key without trades
C7_Witness ==
    /\ pc = "idle" /\ result = "ok"
    /\ \E key \in Keys :
          /\ TradesOfKey(key) = {}
          /\ RowsOfKey(positions, key) # EmptyBag
    /\ \E key \in Keys :
          /\ TradesOfKey(key) # {}
          /\ BagIn(StaleRow(key), positions) = FALSE
          /\ RowsOfKey(positions, key) # EmptyBag

-----------------------------------------------------------------------------
(* C8 *)

\* what the table holds after the call that is running: the table the call
\* started from, less the deleted keys, plus every computed row
AfterRun ==
    InsertOpen(InsertClosed(DeleteAll(preRun, AllKeys(trades_by_key)),
                            closed_positions),
               open_positions)

\* C8 (atomic visibility): while a call runs the committed table is the table
\* from before the call, and the one step that changes the committed table
\* replaces it by the complete table of after the call.
C8_AtomicVisibility ==
    /\ [](pc # "idle" => positions = preRun)
    /\ [][positions' # positions =>
             (pc = "commit" /\ pc' = "idle" /\ positions' = AfterRun)]_vars

\* a call that deleted stale rows and inserted new ones in its session, not yet committed
C8_Witness ==
    /\ pc = "commit"
    /\ tx # positions
    /\ \E key \in Keys : RowsOfKey(positions, key) # EmptyBag
                         /\ RowsOfKey(tx, key) # RowsOfKey(positions, key)
                         /\ RowsOfKey(tx, key) # EmptyBag

-----------------------------------------------------------------------------
(* C9 *)

\* C9 (all or nothing on failure): when a call has failed, at the SELECT, at a
\* DELETE, at an INSERT or at the commit, the committed positions table is the
\* table from before the call.
C9_FailureLeavesTable ==
    (pc = "idle" /\ result = "error") => positions = preRun

\* a call failed after its DELETE had removed rows of the table in the session
C9_Witness ==
    /\ pc = "idle" /\ result = "error"
    /\ cause \in {"insert_closed", "insert_open", "commit"}
    /\ \E key \in Keys :
          /\ key[2] # SqlNull
          /\ KeptRows(trades, key) # {}
          /\ RowsOfKey(positions, key) # EmptyBag

-----------------------------------------------------------------------------
(* C10 *)

\* C10 (malformed input degrades gracefully), as claimed: no call ends with
\* the exception of a conversion; a quantity or a price that is not a number
\* is taken as 0.0 and the call goes on.
C10_ConversionNeverRaises ==
    ~(result = "error" /\ cause = "ValueError")

-----------------------------------------------------------------------------
(* C11 *)

\* the stored quantity is a number nearer to 0 than to 0.000001 or -0.000001
\* (the middle goes to 0, the even neighbour)
RoundsToZero(quantity) ==
    quantity.kind = "num" /\ 2 * quantity.val <= Micro /\ 2 * quantity.val >= 0 - Micro

ZeroTrades == {r \in RowsOf(trades) : RoundsToZero(r.quantity)}

\* the trades table without its zero-quantity rows, ids kept
WithoutZeroTrades == SelectSeq(trades, LAMBDA r : ~RoundsToZero(r.quantity))

\* C11 (zero-quantity exclusion): once the matcher has run, no closed fragment
\* and no open position comes from a trade whose quantity rounds to 0, such a
\* trade is not among the grouped trades, and the closed and open positions
\* computed are those computed from the history without these trades.
C11_ZeroQuantityExcluded ==
    Matched =>
        /\ \A z \in ZeroTrades :
              /\ FragmentsOfBuy(z) = <<>>
              /\ FragmentsOfSell(z) = <<>>
              /\ OpenOfBuy(z) = <<>>
              /\ \A tl \in TradeLists : \A t \in TradesIn(tl) : t.id # z.id
        /\ LET m == MatchAll(GroupAll(WithoutZeroTrades), 1,
                             [closed |-> <<>>, open |-> <<>>])
           IN  /\ closed_positions = m.closed
               /\ open_positions = m.open

\* a history where a trade whose quantity is not 0 and rounds to 0 was entered
\* between a buy and the sell that closes part of it
C11_Witness ==
    /\ Matched
    /\ closed_positions # <<>>
    /\ \E z \in ZeroTrades :
          /\ z.quantity.val # 0
          /\ KeyOf(z) = AAPL1
          /\ \E i \in 1..Len(closed_positions) :
                /\ closed_positions[i].buy_id < z.id
                /\ z.id < closed_positions[i].sell_id

-----------------------------------------------------------------------------
(* C12 *)

\* the stored number, 0 for NULL
ValueOr0(x) == IF x.kind = "num" THEN x.val ELSE 0

ClosedOptions ==
    {option_trades[i] : i \in {j \in 1..Len(option_trades) :
                                  option_trades[j].status # "open"}}

\* C12 (option settlement formula): every option trade that was closed holds
\* numbers as close price and close fee, and its profit_loss is
\* (open - close) * 100 - (open_fee + close_fee) for a credit trade and
\* (close - open) * 100 - (open_fee + close_fee) for a debit trade, an absent
\* open price or fee counting as 0; with open 2.00, close 0.50 and no fees that
\* is +150 for credit and -150 for debit.
C12_SettlementFormula ==
    \A o \in ClosedOptions :
        LET open  == ValueOr0(o.option_open_price)
            fees  == ValueOr0(o.open_fee) + o.close_fee.val
            price == (open - o.option_close_price.val) * 100
        IN  /\ o.option_close_price.kind = "num"
            /\ o.close_fee.kind = "num"
            /\ o.profit_loss.kind = "num"
            /\ o.transaction_type = "credit" => o.profit_loss.val = price - fees
            /\ o.transaction_type = "debit"  => o.profit_loss.val = 0 - price - fees
            /\ (open = Dollars(2) /\ o.option_close_price.val = 50 /\ fees = 0) =>
                  o.profit_loss.val =
                      IF o.transaction_type = "credit" THEN Dollars(150)
                      ELSE 0 - Dollars(150)

\* a debit trade opened at 2.00 and closed at 0.50 without fees
C12_Witness ==
    \E o \in ClosedOptions :
        /\ o.transaction_type = "debit"
        /\ o.option_open_price = Num(Dollars(2))
        /\ o.option_close_price = Num(50)
        /\ o.close_fee = Num(0)
        /\ o.profit_loss = Num(0 - Dollars(150))

-----------------------------------------------------------------------------
(* C13 *)

\* what the caller gets from a close_option_trade call that closed a trade
ClosedValue == "None"

\* C13 (closing a missing option trade), as claimed: a close_option_trade call
\* for an id that is not in option_trades does not raise and gives its caller
\* an outcome that differs from that of a call that closed a trade, and the
\* step of such a call changes neither option_trades nor trades.
C13_MissingSignalsNotFound ==
    /\ []((ret.value # "none" /\ ~ret.found) =>
              (ret.value # "raised" /\ ret.value # ClosedValue))
    /\ [][(ret' # ret /\ ~ret'.found) =>
              (option_trades' = option_trades /\ trades' = trades)]_vars

-----------------------------------------------------------------------------
(* C14 *)

TerminalStatuses == {"expired", "exercised", "assigned", "closed"}

\* the columns a close writes, notes apart
CloseColumns(o) ==
    <<o.status, o.close_date, o.option_close_price, o.close_fee, o.profit_loss>>

\* C14 (option trade lifecycle), as claimed: an option trade is created open,
\* no step changes status, close_date, option_close_price, close_fee or
\* profit_loss of a trade that is in a terminal status, and no two synthetic
\* trades come from the same option trade.
C14_TerminalIsFinal ==
    /\ [](\A i \in 1..Len(option_trades) :
              option_trades[i].status \in TerminalStatuses \cup {"open"})
    /\ [][\A i \in 1..Len(option_trades) :
              option_trades[i].status \in TerminalStatuses =>
                    CloseColumns(option_trades'[i]) = CloseColumns(option_trades[i])]_vars
    /\ [](\A i, j \in 1..Len(synthetic) :
              synthetic[i].option_id = synthetic[j].option_id => i = j)

-----------------------------------------------------------------------------
(* C15 *)

\* the close flow of session s ends in this step, after close_option_trade
\* committed a close as assigned or exercised
FlowEndsAfterAssignment(s) == sess[s].pc = "insert" /\ sess'[s].pc = "idle"

\* the row of the trades table appended in this step is the synthetic trade of
\* the option trade session s closed: its ticker and platform, 100 shares, the
\* strike price, the close date submitted
AppendsSyntheticOf(s) ==
    LET o == option_trades[sess[s].trade.id]
    IN  /\ Len(trades') = Len(trades) + 1
        /\ SubSeq(trades', 1, Len(trades)) = trades
        /\ LET t == trades'[Len(trades')]
           IN  /\ t.ticker = o.ticker
               /\ t.platform_id = o.platform_id
               /\ t.quantity = Num(100 * QtyUnit)
               /\ t.price = o.strike_price
               /\ t.date = sess[s].close_date
               /\ t \in KeptRows(trades', <<o.ticker, o.platform_id>>)
               /\ \E i \in 1..Len(Grouped(trades', <<o.ticker, o.platform_id>>)) :
                     Grouped(trades', <<o.ticker, o.platform_id>>)[i].id = t.id

\* C15 (synthetic equity trade), as claimed: a close flow that closed its
\* option trade as assigned or exercised ends by appending exactly one trade
\* with the option's ticker and platform, quantity 100, the strike price and
\* the close date, which the SELECT and the grouping loop of the next
\* reconciliation hand to the matcher of that key; no other step of the close
\* flow appends a trade.
C15_SyntheticTrade ==
    [][\A s \in Sessions :
          /\ FlowEndsAfterAssignment(s) => AppendsSyntheticOf(s)
          /\ (sess'[s] # sess[s] /\ ~FlowEndsAfterAssignment(s)) => trades' = trades]_vars

-----------------------------------------------------------------------------
(* C16 *)

\* C16 (side of the synthetic trade), as claimed: the synthetic trade of a
\* covered call is a sell and that of a cash secured put is a buy.
C16_SyntheticSide ==
    \A i \in 1..Len(synthetic) :
        LET t == trades[synthetic[i].trade_id]
            o == option_trades[synthetic[i].option_id]
        IN  /\ o.strategy = CoveredCall => NormType(t.trade_type) = SELL
            /\ o.strategy = CashSecuredPut => NormType(t.trade_type) = BUY

-----------------------------------------------------------------------------
(* C17 *)

\* C17 (close with assignment is all-or-nothing), as claimed: an option trade
\* persisted as assigned or exercised has its synthetic trade in the trades
\* table, unless the flow that closed it has not ended yet.
C17_CloseAllOrNothing ==
    \A i \in 1..Len(option_trades) :
        option_trades[i].status \in {"assigned", "exercised"} =>
            \/ \E k \in 1..Len(synthetic) : synthetic[k].option_id = option_trades[i].id
            \/ \E s \in Sessions :
                  sess[s].pc = "insert" /\ sess[s].trade.id = option_trades[i].id

-----------------------------------------------------------------------------
(* C18 *)

\* the value is a date the report can read: a date or the ISO text of one
IsDate(x) == x.kind \in {"num", "iso"}

\* the records aggregate_gains covers that have both dates, each with its year
\* of realisation, the calendar days it was held and its gain in hundredths of
\* a cent (a quantity unit is 1e-7 share, 100000 of them are 0.01 share)
StockLegs ==
    {[asset |-> "Stock", row |-> r, copies |-> CopiesIn(r, positions),
      year |-> YearOf(r.exit_date.val), held |-> r.exit_date.val - r.entry_date.val,
      gain |-> (r.exit_price.val - r.entry_price.val) * (r.quantity.val \div 100000)] :
        r \in {x \in BagToSet(positions) :
                  x.position_status = "close" /\ IsDate(x.entry_date) /\ IsDate(x.exit_date)}}

OptionLegs ==
    {[asset |-> "Options", row |-> o, copies |-> 1,
      year |-> YearOf(o.close_date.val), held |-> o.close_date.val - o.trade_date.val,
      gain |-> 100 * o.profit_loss.val] :
        o \in {x \in RowsOf(TaxedOptions(option_trades)) :
                  IsDate(x.trade_date) /\ IsDate(x.close_date)}}

RECURSIVE SumGains(_)
SumGains(legs) ==
    IF legs = {} THEN 0
    ELSE LET l == CHOOSE x \in legs : TRUE
         IN  l.gain * l.copies + SumGains(legs \ {l})

\* Long Term exactly when held more than 365 days
TermOfLeg(l) == IF l.held > 365 THEN "Long Term" ELSE "Short Term"

ReportYears == {2023, 2024, 2025}

\* aggregate_gains has run and found something to report
Reported == yearly # <<>>

\* C18 (holding-term boundary): in the result of aggregate_gains every bucket
\* (year, asset, term) holds the gains of exactly the covered records of that
\* year and asset whose days held are > 365 for Long Term and <= 365 for Short
\* Term (365 days is Short Term, 366 is Long Term), and the tax of a year is
\* 0.15 of its Long Term gains plus 0.24 of its Short Term gains.
C18_HoldingTerm ==
    Reported =>
        /\ \A y \in ReportYears : \A a \in {"Stock", "Options"} :
              \A t \in {"Long Term", "Short Term"} :
                 LET legs == {l \in StockLegs \cup OptionLegs :
                                 l.year = y /\ l.asset = a /\ TermOfLeg(l) = t}
                 IN  IF <<y, a, t>> \in DOMAIN yearly_breakdown
                     THEN yearly_breakdown[<<y, a, t>>] = SumGains(legs) /\ legs # {}
                     ELSE legs = {}
        /\ \A y \in DOMAIN yearly :
              LET long  == {l \in StockLegs \cup OptionLegs :
                               l.year = y /\ l.held > 365}
                  short == {l \in StockLegs \cup OptionLegs :
                               l.year = y /\ l.held <= 365}
              IN  yearly[y].tax = 15 * SumGains(long) + 24 * SumGains(short)

\* a report over a position and an option leg held 365 days and a position and
\* an option leg held 366 days
C18_Witness ==
    /\ Reported
    /\ \E l \in StockLegs : l.held = 365
    /\ \E l \in StockLegs : l.held = 366
    /\ \E l \in OptionLegs : l.held = 365
    /\ \E l \in OptionLegs : l.held = 366
    /\ {<<2024, "Stock", "Short Term">>, <<2024, "Stock", "Long Term">>,
        <<2024, "Options", "Short Term">>, <<2024, "Options", "Long Term">>}
           \subseteq DOMAIN yearly_breakdown

-----------------------------------------------------------------------------
(* C19 *)

\* option trades in a terminal status with both dates
DatedTerminalOptions ==
    {o \in RowsOf(option_trades) :
        /\ o.status \in TerminalStatuses
        /\ IsDate(o.trade_date) /\ IsDate(o.close_date)}

RECURSIVE SumOfProfitLoss(_)
SumOfProfitLoss(rows) ==
    IF rows = {} THEN 0
    ELSE LET o == CHOOSE x \in rows : TRUE
         IN  ValueOr0(o.profit_loss) + SumOfProfitLoss(rows \ {o})

RECURSIVE SumOfBuckets(_)
SumOfBuckets(keys) ==
    IF keys = {} THEN 0
    ELSE LET k == CHOOSE x \in keys : TRUE
         IN  yearly_breakdown[k] + SumOfBuckets(keys \ {k})

\* the option gains of one year in the result of aggregate_gains
OptionGainsOfYear(y) ==
    SumOfBuckets({k \in DOMAIN yearly_breakdown : k[1] = y /\ k[2] = "Options"})

\* C19 (every closed option leg is taxed), as claimed: in the result of
\* aggregate_gains the option gains of a year are the profit_loss of the option
\* trades in a terminal status, with both dates, closed in that year; and when
\* every option trade in a terminal status has both dates, the option gains of
\* all years add up to the closed total of get_option_trades_summary.
C19_ClosedOptionsTaxed ==
    Reported =>
        /\ \A y \in ReportYears :
              OptionGainsOfYear(y) =
                  100 * SumOfProfitLoss({o \in DatedTerminalOptions :
                                            YearOf(o.close_date.val) = y})
        /\ (/\ summary # <<>>
            /\ \A o \in RowsOf(option_trades) :
                  o.status \in TerminalStatuses => o \in DatedTerminalOptions) =>
              SumOfBuckets({k \in DOMAIN yearly_breakdown : k[2] = "Options"})
                  = 100 * summary.total_pnl

-----------------------------------------------------------------------------
(* C20 *)

\* a row of the report lacks a boundary date, or holds text that is no date
UndatedPosition(r) == ~IsDate(r.entry_date) \/ ~IsDate(r.exit_date)

UndatedOption(o) == ~IsDate(o.trade_date) \/ ~IsDate(o.close_date)

\* the tables without their undated rows
DatedPositions ==
    SetToBag({r \in BagToSet(positions) : ~UndatedPosition(r)})

DatedOptions == SelectSeq(option_trades, LAMBDA o : ~UndatedOption(o))

\* C20 (records without dates are excluded): every year and every bucket in
\* the result of aggregate_gains has a covered record with both dates, and the
\* result is the one computed from the tables without the rows that lack a
\* date (the tables of the model hold no row twice).
C20_UndatedExcluded ==
    /\ \A y \in DOMAIN yearly : \E l \in StockLegs \cup OptionLegs : l.year = y
    /\ \A k \in DOMAIN yearly_breakdown :
          \E l \in StockLegs \cup OptionLegs : l.year = k[1] /\ l.asset = k[2]
    /\ Reported =>
          LET r == AggregateGains(DatedPositions, DatedOptions)
          IN  yearly = r.yearly /\ yearly_breakdown = r.breakdown

\* a report over tables that hold a closed position without entry date, one
\* with an exit date that is no date, and option legs without trade date and
\* without close date
C20_Witness ==
    /\ Reported
    /\ \E r \in BagToSet(positions) :
          r.position_status = "close" /\ r.entry_date = SqlNull
    /\ \E r \in BagToSet(positions) :
          r.position_status = "close" /\ r.exit_date = BadText
    /\ \E o \in RowsOf(TaxedOptions(option_trades)) : o.trade_date = SqlNull
    /\ \E o \in RowsOf(TaxedOptions(option_trades)) : o.close_date = SqlNull

-----------------------------------------------------------------------------
(* C21 *)

\* every row of a positions table holds a quantity above 0
QuantitiesPositive(table) ==
    \A r \in BagToSet(table) : r.quantity.kind = "num" /\ r.quantity.val > 0

\* C21 (lot quantity bounds), as claimed: every trade that reaches the
\* matching has a quantity above 0, every lot of the queue has
\* 0 <= remaining <= quantity in every state of the matching, every closed
\* fragment and every open position computed has a quantity above 0, and so
\* has every row written to the positions table.
C21_LotBounds ==
    /\ \A tl \in TradeLists : \A t \in TradesIn(tl) : t.quantity > 0
    /\ \A n \in 1..Len(match.open_lots) :
          /\ 0 <= match.open_lots[n].remaining
          /\ match.open_lots[n].remaining <= match.open_lots[n].quantity
    /\ \A n \in 1..Len(closed_positions) : closed_positions[n].quantity > 0
    /\ \A n \in 1..Len(open_positions) : open_positions[n].quantity > 0
    /\ QuantitiesPositive(tx)
    /\ QuantitiesPositive(positions)

-----------------------------------------------------------------------------
(* C22 *)

\* the trades table without the rows of other keys
OnlyKey(key) ==
    SelectSeq(trades, LAMBDA r : r.ticker = key[1] /\ r.platform_id = key[2])

\* the position rows a reconciliation writes when the trades table holds the
\* trades of the key and nothing else
RowsAlone(key) ==
    LET m == MatchAll(GroupAll(OnlyKey(key)), 1, [closed |-> <<>>, open |-> <<>>])
    IN  BagOfSeq([i \in 1..Len(m.closed) |-> ClosedRow(m.closed[i])]
                 \o [i \in 1..Len(m.open) |-> OpenRow(m.open[i])])

\* the trades table row of that id
TradeRow(id) == trades[id]

\* C22 (per-key independence): the position rows computed, and about to be
\* committed, for a key are the rows computed from the trades of that key
\* alone, whatever the trades of the other keys are; and every closed fragment
\* pairs a buy and a sell of its own (ticker, platform_id).
C22_KeyIndependence ==
    /\ Matched =>
          /\ \A key \in Keys : ComputedRows(key) = RowsAlone(key)
          /\ \A n \in 1..Len(closed_positions) :
                LET f == closed_positions[n]
                IN  /\ TradeRow(f.buy_id).ticker = f.ticker
                    /\ TradeRow(f.buy_id).platform_id = f.platform_id
                    /\ TradeRow(f.sell_id).ticker = f.ticker
                    /\ TradeRow(f.sell_id).platform_id = f.platform_id
    /\ pc = "commit" => \A key \in Keys : RowsOfKey(tx, key) = RowsAlone(key)

\* a sell on one platform closed part of that platform's lot while a lot of
\* the same ticker on the other platform, bought earlier, stayed whole
C22_Witness ==
    /\ pc = "commit"
    /\ \E n \in 1..Len(closed_positions) : \E o \in 1..Len(open_positions) :
          /\ closed_positions[n].ticker = open_positions[o].ticker
          /\ closed_positions[n].platform_id # open_positions[o].platform_id
          /\ open_positions[o].buy_id < closed_positions[n].buy_id
          /\ open_positions[o].quantity = TradeRow(open_positions[o].buy_id).quantity.val

-----------------------------------------------------------------------------
(* C23 *)

\* the positions the trade history derives, one copy of each
DerivedPositions ==
    LET m == MatchAll(GroupAll(trades), 1, [closed |-> <<>>, open |-> <<>>])
    IN  InsertOpen(InsertClosed(EmptyBag, m.closed), m.open)

\* C23 (reconciliation runs are serialized), as claimed: the runs of two
\* sessions do not interleave their delete and insert steps, so once the runs
\* that were started have all committed, the positions table holds exactly one
\* copy of the positions derived from the trade history.
C23_RunsSerialized ==
    (result = "ok" /\ \A s \in Sessions : runners[s].pc = "idle")
        => positions = DerivedPositions

-----------------------------------------------------------------------------
(* C24 *)

\* the ways of writing a buy and a sell that the claim names, and the
\* lowercase words themselves
BuySpellings == {<<"B", "u", "y">>, <<"B", "U", "Y">>, <<" ", "b", "u", "y", " ">>,
                 <<"b", "u", "y">>}

SellSpellings == {<<"S", "e", "l", "l">>, <<"S", "E", "L", "L">>,
                  <<" ", "s", "e", "l", "l", " ">>, <<"s", "e", "l", "l">>}

\* the trades table with every buy written "buy", every sell written "sell"
\* and the trades of any other side left out
PlainSides ==
    LET kept == SelectSeq(trades, LAMBDA r : r.trade_type \in BuySpellings \cup SellSpellings)
    IN  [n \in 1..Len(kept) |->
            [kept[n] EXCEPT !.trade_type =
                IF kept[n].trade_type \in BuySpellings
                THEN <<"b", "u", "y">> ELSE <<"s", "e", "l", "l">>]]

\* C24 (side normalisation): the fragments and open lots computed are those of
\* the history in which "Buy", "BUY" and " buy " are written "buy", "Sell",
\* "SELL" and " sell " are written "sell", and the trades of any other side, a
\* missing side included, are absent.
C24_SideNormalised ==
    Matched =>
        LET m == MatchAll(GroupAll(PlainSides), 1, [closed |-> <<>>, open |-> <<>>])
        IN  /\ closed_positions = m.closed
            /\ open_positions = m.open

\* a lot of a " buy " was closed in part by a "SELL" or " sell ", while the
\* history holds a trade without side or with another side
C24_Witness ==
    /\ Matched
    /\ \E n \in 1..Len(closed_positions) :
          /\ TradeRow(closed_positions[n].buy_id).trade_type = <<" ", "b", "u", "y", " ">>
          /\ TradeRow(closed_positions[n].sell_id).trade_type
                \in {<<"S", "E", "L", "L">>, <<" ", "s", "e", "l", "l", " ">>}
    /\ \E r \in RowsOf(trades) : r.trade_type \notin BuySpellings \cup SellSpellings

-----------------------------------------------------------------------------
(* C25 *)

\* the last call was a call of a function wrapped with handle_api_error
ApiCalled == call.wrapper = "handle_api_error"

\* Exception and the classes derived from it
ExceptionInstances == {"Exception", "ConnectionError"}

\* C25 (handle_api_error never propagates), as claimed: the wrapper returns
\* the function's result when it succeeds, and when the function raises any
\* exception it issues a warning and returns None instead of raising.
C25_NeverPropagates ==
    ApiCalled =>
        /\ call.outcome.kind = "return" =>
              (call.returned = call.outcome.value /\ call.raised = "none")
        /\ call.outcome.kind = "raise" =>
              (call.returned = "None" /\ call.raised = "none" /\ call.warned)

\* C25, amended: the wrapper returns the function's result when it succeeds;
\* when the function raises an instance of Exception it issues a warning and
\* returns None; an exception that is no instance of Exception
\* (KeyboardInterrupt, SystemExit) goes on to the caller, without a warning.
C25_CatchesExceptions ==
    ApiCalled =>
        /\ call.outcome.kind = "return" =>
              (call.returned = call.outcome.value /\ call.raised = "none" /\ ~call.warned)
        /\ (call.outcome.kind = "raise" /\ call.outcome.class \in ExceptionInstances) =>
              (call.returned = "None" /\ call.raised = "none" /\ call.warned)
        /\ (call.outcome.kind = "raise" /\ call.outcome.class \notin ExceptionInstances) =>
              (call.raised = call.outcome.class /\ ~call.warned)

\* the function raised Exception and the caller got None after a warning
C25_Witness ==
    /\ ApiCalled
    /\ call.outcome = Raises("Exception")
    /\ call.returned = "None"
    /\ call.warned

-----------------------------------------------------------------------------
(* C26 *)

\* the sells of tl that no buy of tl precedes
SellsBeforeAllBuys(tl) ==
    {s \in SellsIn(tl) : \A b \in BuysIn(tl) : ~DateIdBefore(b, s)}

\* what the matcher computes for the trades table without the trade of that id
MatchedWithout(id) ==
    MatchAll(GroupAll(SelectSeq(trades, LAMBDA r : r.id # id)), 1,
             [closed |-> <<>>, open |-> <<>>])

\* C26 (sells match prior buys only): every closed fragment pairs a sell with
\* the lot of a buy that precedes the sell in the (date, id) order of the key,
\* and its exit_date is not before its entry_date, in the list and in the
\* table; a sell that precedes every buy of its key has no fragment, and the
\* fragments and open lots are those of the history without that sell.
C26_SellsMatchPriorBuys ==
    Matched =>
        /\ \A n \in 1..Len(closed_positions) :
              LET f == closed_positions[n]
              IN  /\ TradeOfId(f.buy_id).trade_type = BUY
                  /\ TradeOfId(f.sell_id).trade_type = SELL
                  /\ DateIdBefore(TradeOfId(f.buy_id), TradeOfId(f.sell_id))
                  /\ f.exit_date >= f.entry_date
        /\ \A r \in BagToSet(tx) :
              r.position_status = "close" => r.exit_date.val >= r.entry_date.val
        /\ \A tl \in TradeLists : \A s \in SellsBeforeAllBuys(tl) :
              /\ FragmentsOfSell(s) = <<>>
              /\ closed_positions = MatchedWithout(s.id).closed
              /\ open_positions = MatchedWithout(s.id).open

\* a sell dated before the only buy of its key and entered after it: the sell
\* has no fragment and the lot of the buy is whole; and in the same history a
\* later sell closed part of that lot
C26_Witness ==
    /\ Matched
    /\ \E tl \in TradeLists : \E s \in SellsBeforeAllBuys(tl) : \E b \in BuysIn(tl) :
          /\ s.quantity > 0 /\ b.quantity > 0
          /\ s.id > b.id
          /\ FragmentsOfSell(s) = <<>>
          /\ \E n \in 1..Len(closed_positions) :
                /\ closed_positions[n].buy_id = b.id
                /\ closed_positions[n].exit_date > closed_positions[n].entry_date

-----------------------------------------------------------------------------
(* C27 *)

\* the while loop of a sell is running and its condition is true
LoopGoesOn ==
    match.stage = "while" /\ Round6(match.sell_qty) > 0 /\ match.open_lots # <<>>

\* the step is one iteration of the while loop
IsIteration ==
    /\ match.stage = "while"
    /\ match'.stage = "while"
    /\ match'.iterations = match.iterations + 1

\* C27 (matching terminates): the while loop of a sell makes at most as many
\* iterations as there were open lots when the sell was reached, plus one: once
\* that many are made the condition of the loop is false; and every iteration
\* removes the head lot from the queue or brings the unmatched sell quantity
\* to zero, so that none leaves both the queue and the sell quantity as they
\* were.
C27_MatchingTerminates ==
    /\ [](match.stage = "while" => match.iterations <= match.lots_at_start + 1)
    /\ [](LoopGoesOn => match.iterations < match.lots_at_start + 1)
    /\ [][IsIteration =>
             /\ \/ match'.open_lots = Tail(match.open_lots)
                \/ match'.sell_qty = 0
             /\ \/ match'.open_lots # match.open_lots
                \/ match'.sell_qty # match.sell_qty]_vars

\* the loop of a sell that found two lots has ended after two iterations: the
\* first removed the head lot, the second brought the sell quantity to zero
C27_Witness ==
    /\ match.stage = "while"
    /\ ~LoopGoesOn
    /\ match.lots_at_start = 2
    /\ match.iterations = 2
    /\ match.sell_qty = 0
    /\ Len(match.open_lots) = 1

-----------------------------------------------------------------------------
(* C28 *)

\* the closed positions of the table that exit in year y
ClosedOfYear(y) ==
    {r \in BagToSet(positions) :
        r.position_status = "close" /\ YearOf(r.exit_date.val) = y}

\* the sum of f(r) over the rows, each as often as the table holds it
RECURSIVE SumOverRows(_, _)
SumOverRows(f(_), rows) ==
    IF rows = {} THEN 0
    ELSE LET r == CHOOSE x \in rows : TRUE
         IN  f(r) * CopiesIn(r, positions) + SumOverRows(f, rows \ {r})

\* (exit_price - entry_price) * quantity in hundredths of a cent
LongGain(r) == (r.exit_price.val - r.entry_price.val) * (r.quantity.val \div 100000)

\* the persisted profit_loss in hundredths of a cent
StoredProfitLoss(r) == 100 * r.profit_loss.val

RowCount(r) == 1

\* the stock gain of year y in the result of aggregate_gains
StockGainsOfYear(y) ==
    SumOfBuckets({k \in DOMAIN yearly_breakdown : k[1] = y /\ k[2] = "Stock"})

\* C28 (tax gain agrees with realised P/L): over a positions table written by
\* sync_positions_from_trades, the stock gain of every year in the result of
\* aggregate_gains is the sum of (exit_price - entry_price) * quantity over
\* the closed positions exiting in that year, and it differs from the sum of
\* their persisted profit_loss by no more than half a cent for each of them.
C28_TaxGainIsRealisedPnl ==
    Reported =>
        \A y \in ReportYears :
            /\ StockGainsOfYear(y) = SumOverRows(LongGain, ClosedOfYear(y))
            /\ Abs(StockGainsOfYear(y) - SumOverRows(StoredProfitLoss, ClosedOfYear(y)))
                  <= 50 * SumOverRows(RowCount, ClosedOfYear(y))
            /\ y \in DOMAIN yearly => yearly[y].gain = StockGainsOfYear(y)

\* a report over closed positions of two years, one of them with a
\* profit_loss that the rounding to cents changed
C28_Witness ==
    /\ Reported
    /\ ClosedOfYear(2023) # {}
    /\ ClosedOfYear(2024) # {}
    /\ \E r \in ClosedOfYear(2023) : StoredProfitLoss(r) # LongGain(r)
    /\ StockGainsOfYear(2023) # 0

-----------------------------------------------------------------------------
(* C29 *)

\* the step is a call of the function wrapped with the breaker arriving at
\* the wrapper
BreakerCalled ==
    /\ call.stage # "running"
    /\ call' # call
    /\ call'.wrapper = "circuit_breaker"

\* the step is the end of the wrapped function in a call through the breaker
FunctionEnds == call.stage = "running" /\ call'.stage = "done"

\* more than timeout seconds have passed since the last failure
PastTimeout == now - breaker.last_failure_time > breaker.timeout

\* C29 (the breaker short-circuits while open): a call that arrives while the
\* breaker is open and no more than timeout seconds have passed since the last
\* failure returns None, does not invoke the function and leaves state,
\* failure_count and last_failure_time as they are; a call that arrives while
\* it is open and more than timeout seconds have passed moves it to half_open
\* and invokes the function; when that function returns the breaker is closed
\* with failure_count 0, when it fails the breaker is open again.
C29_ShortCircuitWhileOpen ==
    [][/\ (BreakerCalled /\ breaker.state = "open" /\ ~PastTimeout) =>
              /\ ~call'.invoked
              /\ call'.stage = "done"
              /\ call'.returned = "None"
              /\ call'.raised = "none"
              /\ breaker' = breaker
       /\ (BreakerCalled /\ breaker.state = "open" /\ PastTimeout) =>
              /\ call'.invoked
              /\ call'.stage = "running"
              /\ breaker' = [breaker EXCEPT !.state = "half_open"]
       /\ (FunctionEnds /\ breaker.state = "half_open") =>
              /\ call'.outcome.kind = "return" =>
                    /\ breaker'.state = "closed"
                    /\ breaker'.failure_count = 0
                    /\ call'.returned = call'.outcome.value
              /\ (call'.outcome.kind = "raise"
                  /\ call'.outcome.class \in ExceptionInstances) =>
                    /\ breaker'.state = "open"
                    /\ breaker'.last_failure_time = now
                    /\ call'.raised = call'.outcome.class]_vars

\* an open breaker has just returned None to a call made exactly timeout
\* seconds after the last failure, after an earlier recovery through half_open
C29_Witness ==
    /\ breaker.state = "open"
    /\ call.wrapper = "circuit_breaker"
    /\ call.stage = "done"
    /\ ~call.invoked
    /\ call.returned = "None"
    /\ now - breaker.last_failure_time = breaker.timeout
    /\ breaker.failure_count > breaker.failure_threshold

-----------------------------------------------------------------------------
(* C30 *)

\* the wrapped function ends by an exception the breaker counts
FunctionFails ==
    /\ FunctionEnds
    /\ call'.outcome.kind = "raise"
    /\ call'.outcome.class \in ExceptionInstances

\* the wrapped function ends by returning
FunctionSucceeds == FunctionEnds /\ call'.outcome.kind = "return"

\* C30 (failure counting): whenever the breaker is open, failure_count is at
\* least failure_threshold; the breaker leaves closed in the call whose
\* failure raises failure_count to failure_threshold and in no other step; a
\* failure while it is closed adds one to failure_count, and a success while
\* it is closed leaves failure_count as it is, so that the failures add up
\* across the successes between them.
C30_FailureCounting ==
    /\ [](breaker.state = "open" =>
             breaker.failure_count >= breaker.failure_threshold)
    /\ [][/\ (breaker.state = "closed" /\ breaker'.state # "closed") =>
                 /\ FunctionFails
                 /\ breaker'.state = "open"
                 /\ breaker'.failure_count = breaker.failure_count + 1
                 /\ breaker'.failure_count = breaker.failure_threshold
          /\ (FunctionFails /\ breaker.state = "closed") =>
                 /\ breaker'.failure_count = breaker.failure_count + 1
                 /\ breaker'.failure_count = breaker.failure_threshold =>
                       breaker'.state = "open"
          /\ (FunctionSucceeds /\ breaker.state = "closed") =>
                 breaker' = breaker]_vars

\* a closed breaker one failure short of its threshold of three has just
\* passed a successful call, and failure_count is still two
C30_Witness ==
    /\ breaker.state = "closed"
    /\ breaker.failure_threshold = 3
    /\ breaker.failure_count = 2
    /\ call.wrapper = "circuit_breaker"
    /\ call.stage = "done"
    /\ call.outcome.kind = "return"

=============================================================================
